---- MODULE Spec2Model ----
(***************************************************************************)
(* SMS gateway: API-key authentication, the single and bulk send handlers, *)
(* the provider client, the SMS log and the per-client usage counters.     *)
(*                                                                         *)
(* Every HTTP request is a process (one goroutine per request).  A step of *)
(* a process is one access to shared state (one database statement, or the *)
(* return of the provider call) together with the local computation that   *)
(* follows it in the handler.                                              *)
(***************************************************************************)
EXTENDS Integers, Sequences, FiniteSets, TLC

\* ------------------------------------------------------------------ bounds

\* Requests issued in one behaviour (request r+1 arrives after request r).
MaxReq == 2

\* Largest number of messages in one bulk request.
MaxBatch == 2

\* Administrative updates issued in one behaviour.
MaxAdmin == 1

\* The clock counts ticks: ticks in a day, days in a month.
TicksPerDay == 2

DaysPerMonth == 3

\* Largest number of tokens in front of the digits of a raw phone number.
MaxTokens == 3

\* Largest number of entries in the log when a log retrieval begins.
MaxLogs == 3

\* Largest number of single sends the server handles one after another on
\* its MaxReq connections.
MaxSends == 5

Reqs == 1..MaxReq

Admins == 1..MaxAdmin

\* ------------------------------------------------------------ phone numbers

\* A string is a sequence of one-character strings.
Digits == {"0", "1", "2", "3", "4", "5", "6", "7", "8", "9"}

HasPrefix(s, p) == Len(s) >= Len(p) /\ SubSeq(s, 1, Len(p)) = p

RECURSIVE TrimLeftZeros(_)
TrimLeftZeros(s) ==
    IF s # <<>> /\ Head(s) = "0" THEN TrimLeftZeros(Tail(s)) ELSE s

CountryCode == <<"2", "5", "6">>

\* FormatPhone, were the country code put in front of the digits of every
\* input.
FormatPhoneAlwaysPrefixes(phone) ==
    <<"+">> \o CountryCode
        \o TrimLeftZeros(SelectSeq(phone, LAMBDA ch : ch \in Digits))

FormatPhone(phone) ==
    LET cleaned == SelectSeq(phone, LAMBDA ch : ch \in Digits \cup {"+"})
    IN  IF ~HasPrefix(cleaned, <<"+">>)
        THEN LET trimmed == TrimLeftZeros(cleaned)
                 coded   == IF ~HasPrefix(trimmed, CountryCode)
                            THEN CountryCode \o trimmed
                            ELSE trimmed
             IN  <<"+">> \o coded
        ELSE cleaned

\* ValidatePhone, were nine digits enough.
ValidatePhoneFromNine(phone) ==
    LET digits == SelectSeq(FormatPhone(phone), LAMBDA ch : ch \in Digits)
    IN  Len(digits) >= 9 /\ Len(digits) <= 15

ValidatePhone(phone) ==
    LET digits == SelectSeq(FormatPhone(phone), LAMBDA ch : ch \in Digits)
    IN  Len(digits) >= 10 /\ Len(digits) <= 15

\* Recipient numbers the requests draw from.
NumLocal == <<"0", "7", "0", "1", "2", "3", "4", "5", "6", "7">>

NumShort == <<"1", "2", "3", "4">>

Numbers == {NumLocal, NumShort}

\* Raw numbers as a caller may type them: up to MaxTokens tokens (a zero, a
\* plus, a dash, the country code, a digit) and then a run of digits, none
\* or so many that the digit count comes to either side of 10 and of 15.
Tokens == {<<"0">>, <<"+">>, <<"-">>, CountryCode, <<"7">>}

RECURSIVE TokenStrings(_)
TokenStrings(n) ==
    IF n = 0 THEN {<<>>}
    ELSE LET shorter == TokenStrings(n - 1)
         IN  shorter \cup {p \o t : p \in shorter, t \in Tokens}

Run(n) == [i \in 1..n |-> "1"]

Bodies == {<<>>, Run(6), Run(7), Run(12), Run(13)}

RawNumbers == {p \o b : p \in TokenStrings(MaxTokens), b \in Bodies}

\* --------------------------------------------------------------- responses

NoData == [none |-> TRUE]

\* models.SMSResponse with its HTTP status.  Error is a text in fragments (a
\* handler may build it around a recipient number).
SMSResponse(code, success, message, error, data) ==
    [Code |-> code, Success |-> success, Message |-> message,
     Error |-> error, Data |-> data]

NoResponse == SMSResponse(0, FALSE, "", <<>>, NoData)

\* ----------------------------------------------------------------- clients

ClientIds == {1}

APIKeyOf(c) == IF c = 1 THEN "key1" ELSE "key2"

SecretOf(c) == IF c = 1 THEN "secret1" ELSE "secret2"

NameOf(c) == IF c = 1 THEN "App1" ELSE "App2"

\* bcrypt: the stored form is a hash of the secret, compared by re-hashing.
GenerateFromPassword(secret) == <<"bcrypt", secret>>

CompareHashAndPassword(hash, secret) == hash = GenerateFromPassword(secret)

\* The (daily, monthly) limits the administrator may give at creation.
Limits == {<<2, 1>>, <<2, 3>>}

VARIABLES
    apiClients,   \* table api_clients: client id -> row
    smsLogs,      \* table sms_logs, in order of creation
    now,          \* the clock
    req,          \* request id -> the request's goroutine
    adm,          \* admin request id -> its goroutine
    sched         \* the reset scheduler: when each of its loops wakes next

vars == <<apiClients, smsLogs, now, req, adm, sched>>

\* The row CreateClient stores.
CreateClient(c, rateLimit, dailyLimit, monthlyLimit, t) ==
    [ID           |-> c,
     Name         |-> NameOf(c),
     APIKey       |-> APIKeyOf(c),
     APISecret    |-> GenerateFromPassword(SecretOf(c)),
     IsActive     |-> TRUE,
     RateLimit    |-> IF rateLimit = 0 THEN 100 ELSE rateLimit,
     DailyLimit   |-> IF dailyLimit = 0 THEN 10000 ELSE dailyLimit,
     MonthlyLimit |-> IF monthlyLimit = 0 THEN 300000 ELSE monthlyLimit,
     DailyUsage   |-> 0,
     MonthlyUsage |-> 0,
     LastReset    |-> t]

NoClient == [ID |-> 0]

\* database.DB.Where("api_key = ?", apiKey).First(&client)
FindByAPIKey(db, apiKey) == {c \in DOMAIN db : db[c].APIKey = apiKey}

\* ---------------------------------------------------------- authentication

\* The outcome of the APIKeyAuth middleware: either it aborts with a
\* response, or it puts the client row it read into the request context.
AuthAbort(code, message, error) ==
    [ok |-> FALSE, client |-> NoClient,
     resp |-> SMSResponse(code, FALSE, message, <<error>>, NoData)]

\* APIKeyAuth, were the quotas tested before the active flag.
APIKeyAuthQuotaFirst(db, apiKey, apiSecret) ==
    IF apiKey = "" \/ apiSecret = ""
    THEN AuthAbort(401, "Missing API credentials",
                   "X-API-Key and X-API-Secret headers are required")
    ELSE IF FindByAPIKey(db, apiKey) = {}
    THEN AuthAbort(401, "Invalid API credentials", "API key not found")
    ELSE LET client == db[CHOOSE c \in FindByAPIKey(db, apiKey) : TRUE]
         IN  IF ~CompareHashAndPassword(client.APISecret, apiSecret)
             THEN AuthAbort(401, "Invalid API credentials", "API secret mismatch")
             ELSE IF client.DailyUsage >= client.DailyLimit
             THEN AuthAbort(429, "Daily limit exceeded",
                            "You have reached your daily SMS limit")
             ELSE IF client.MonthlyUsage >= client.MonthlyLimit
             THEN AuthAbort(429, "Monthly limit exceeded",
                            "You have reached your monthly SMS limit")
             ELSE IF ~client.IsActive
             THEN AuthAbort(403, "API client is inactive",
                            "Your API access has been suspended")
             ELSE [ok |-> TRUE, client |-> client, resp |-> NoResponse]

APIKeyAuth(db, apiKey, apiSecret) ==
    IF apiKey = "" \/ apiSecret = ""
    THEN AuthAbort(401, "Missing API credentials",
                   "X-API-Key and X-API-Secret headers are required")
    ELSE IF FindByAPIKey(db, apiKey) = {}
    THEN AuthAbort(401, "Invalid API credentials", "API key not found")
    ELSE LET client == db[CHOOSE c \in FindByAPIKey(db, apiKey) : TRUE]
         IN  IF ~CompareHashAndPassword(client.APISecret, apiSecret)
             THEN AuthAbort(401, "Invalid API credentials", "API secret mismatch")
             ELSE IF ~client.IsActive
             THEN AuthAbort(403, "API client is inactive",
                            "Your API access has been suspended")
             ELSE IF client.DailyUsage >= client.DailyLimit
             THEN AuthAbort(429, "Daily limit exceeded",
                            "You have reached your daily SMS limit")
             ELSE IF client.MonthlyUsage >= client.MonthlyLimit
             THEN AuthAbort(429, "Monthly limit exceeded",
                            "You have reached your monthly SMS limit")
             ELSE [ok |-> TRUE, client |-> client, resp |-> NoResponse]

\* ---------------------------------------------------------------- provider

\* models.SMSRequest
SMSRequest(number, message, senderID, priority) ==
    [Number |-> number, Message |-> message, SenderID |-> senderID,
     Priority |-> priority]

\* What the HTTP exchange with the provider can come to: no reply (transport
\* error), a body that is not the expected JSON object, or a JSON object
\* with Status and Message.
NoExchange ==
    [ok |-> FALSE, json |-> FALSE, Status |-> "", Message |-> "", outs |-> <<>>]

ExchError ==
    [ok |-> FALSE, json |-> FALSE, Status |-> "",
     Message |-> "connection refused", outs |-> <<>>]

ExchRaw ==
    [ok |-> TRUE, json |-> FALSE, Status |-> "", Message |-> "<html>", outs |-> <<>>]

ExchJSON(status, message) ==
    [ok |-> TRUE, json |-> TRUE, Status |-> status, Message |-> message,
     outs |-> <<>>]

\* A body that is a JSON array with one outcome per message, outs their
\* statuses: json.Unmarshal into the one SMSProviderResponse struct fails
\* for an array, and the raw body is what SendSMS has of it.
ExchArray(outs) ==
    [ok |-> TRUE, json |-> FALSE, Status |-> "", Message |-> "[{...}]",
     outs |-> outs]

Exchanges ==
    {ExchError, ExchRaw, ExchJSON("Success", "OK"),
     ExchJSON("Failed", "invalid number")}

\* The msgdata array of the upstream request.
MsgData(messages, defaultSenderID) ==
    [i \in 1..Len(messages) |->
        [number   |-> FormatPhone(messages[i].Number),
         message  |-> messages[i].Message,
         senderid |-> IF messages[i].SenderID = "" THEN defaultSenderID
                      ELSE messages[i].SenderID,
         priority |-> IF messages[i].Priority = "" THEN "1"
                      ELSE messages[i].Priority]]

SMSProviderResponse(status, message) == [Status |-> status, Message |-> message]

\* SendSMS, were a transport error returned as no response and no error.
SendSMSSwallowsError(exch) ==
    IF ~exch.ok
    THEN [responses |-> <<>>, err |-> ""]
    ELSE IF ~exch.json
    THEN [responses |-> <<SMSProviderResponse("Failed", exch.Message)>>, err |-> ""]
    ELSE [responses |-> <<SMSProviderResponse(exch.Status, exch.Message)>>, err |-> ""]

\* SendSMS, were a transport error returned as a failed response.
SendSMSFailsOnError(exch) ==
    IF ~exch.ok
    THEN [responses |-> <<SMSProviderResponse("Failed", exch.Message)>>, err |-> ""]
    ELSE IF ~exch.json
    THEN [responses |-> <<SMSProviderResponse("Failed", exch.Message)>>, err |-> ""]
    ELSE [responses |-> <<SMSProviderResponse(exch.Status, exch.Message)>>, err |-> ""]

\* SendSMS, were a body that cannot be decoded returned as an error.
SendSMSErrorOnRaw(exch) ==
    IF ~exch.ok
    THEN [responses |-> <<>>, err |-> "failed to send SMS request"]
    ELSE IF ~exch.json
    THEN [responses |-> <<>>, err |-> "failed to parse response"]
    ELSE [responses |-> <<SMSProviderResponse(exch.Status, exch.Message)>>, err |-> ""]

\* What SendSMS returns for an exchange: (responses, err).
SendSMS(exch) ==
    IF ~exch.ok
    THEN [responses |-> <<>>, err |-> "failed to send SMS request"]
    ELSE IF ~exch.json
    THEN [responses |-> <<SMSProviderResponse("Failed", exch.Message)>>, err |-> ""]
    ELSE [responses |-> <<SMSProviderResponse(exch.Status, exch.Message)>>, err |-> ""]

\* ------------------------------------------------------------------ SMS log

\* models.SMSLog as a handler fills it; Req names the request that created
\* the entry (history only, no handler reads it).
SMSLog(r, clientID, recipient, msg, status, providerStatus, providerMessage, error) ==
    [ID              |-> 0,
     Req             |-> r,
     ClientID        |-> clientID,
     Recipient       |-> recipient,
     Message         |-> msg.Message,
     SenderID        |-> msg.SenderID,
     Priority        |-> msg.Priority,
     Status          |-> status,
     ProviderStatus  |-> providerStatus,
     ProviderMessage |-> providerMessage,
     Error           |-> error]

\* DBCreate, were the new entry stored in front of the others.
DBCreateInFront(logs, entry) ==
    <<[entry EXCEPT !.ID = Len(logs) + 1]>> \o logs

\* DBCreate, were an entry with status failed not stored.
DBCreateUnlessFailed(logs, entry) ==
    IF entry.Status = "failed" THEN logs
    ELSE Append(logs, [entry EXCEPT !.ID = Len(logs) + 1])

\* database.DB.Create(&smsLog): BeforeCreate gives the entry a fresh id.
DBCreate(logs, entry) == Append(logs, [entry EXCEPT !.ID = Len(logs) + 1])

\* database.DB.Save(&apiClient): writes every column of the row.
DBSave(db, client) == [db EXCEPT ![client.ID] = client]

\* The test of the provider status, were every status but the empty one
\* taken for a success.
IsSuccessUnlessEmpty(status) == status # ""

\* The handlers' test of the provider status.
IsSuccess(status) == ~(status # "Success" /\ status # "success")

\* ----------------------------------------------------------------- requests

\* The counters of a row.
Usage(client) == [Daily |-> client.DailyUsage, Monthly |-> client.MonthlyUsage]

NoUsage == [Daily |-> 0, Monthly |-> 0]

\* The query parameters of GET /logs.
LogsQuery(status, limit, offset) ==
    [status |-> status, limit |-> limit, offset |-> offset]

NoQuery == LogsQuery("", 0, 0)

\* The goroutine of a request: where it is, what it was sent with and the
\* handler's local variables.  History, read by no handler: the response of
\* the middleware when it aborted (auth), the upstream calls the request
\* made (calls), what the exchange with the provider came to (exch), the
\* counters it has written to the client's row (saved), the client's
\* counters as stored when it arrived (before) and when it ended (after),
\* whether no other request of the client has been in flight with it
\* (alone), and whether a reset of the scheduler has written the client's row
\* while the request was in flight (reset).
IdleReq ==
    [pc           |-> "idle",
     kind         |-> "",
     apiKey       |-> "",
     apiSecret    |-> "",
     msgs         |-> <<>>,
     auth         |-> NoResponse,
     calls        |-> <<>>,     \* the msgdata arrays it has sent upstream
     exch         |-> NoExchange,
     saved        |-> <<>>,
     alone        |-> TRUE,
     reset        |-> FALSE,
     query        |-> NoQuery,  \* logs: the query parameters
     apiClient    |-> NoClient, \* the client in the request context
     before       |-> NoUsage,
     after        |-> NoUsage,
     responses    |-> <<>>,
     err          |-> "",
     i            |-> 0,        \* bulk: messages logged so far
     successCount |-> 0,
     failedCount  |-> 0,
     results      |-> <<>>,
     resp         |-> NoResponse]

InFlight(q) == q.pc \in {"sending", "logging", "saving"}

\* The record of an ended request is kept until the next step of any
\* request: a state shows the request that ended last.
GoneReq == [IdleReq EXCEPT !.pc = "gone"]

Forget(rq) == [r \in DOMAIN rq |-> IF rq[r].pc = "done" THEN GoneReq ELSE rq[r]]

\* Of a request that has ended, the loop variables are dropped.
Ended(q, response) ==
    [q EXCEPT !.pc = "done", !.i = 0, !.successCount = 0, !.failedCount = 0,
              !.results = <<>>, !.resp = response]

\* The request ends with `response`, the table of clients being db.
Done(q, response, db) ==
    [Ended(q, response) EXCEPT !.after =
        IF q.apiClient = NoClient THEN NoUsage ELSE Usage(db[q.apiClient.ID])]

\* ShouldBindJSON on models.SMSRequest: number and message are required.
BindSMSRequest(msg) == msg.Number # <<>> /\ msg.Message # <<>>

\* ShouldBindJSON on models.BulkSMSRequest: required, min=1, dive.
BindBulkSMSRequest(msgs) ==
    Len(msgs) >= 1 /\ \A i \in 1..Len(msgs) : BindSMSRequest(msgs[i])

BadPayload ==
    SMSResponse(400, FALSE, "Invalid request payload", <<"binding">>, NoData)

\* SendSingleSMS up to the provider call: NoResponse when it goes on to call.
SendSingleSMSChecks(msg) ==
    IF ~BindSMSRequest(msg) THEN BadPayload
    ELSE IF ~ValidatePhone(msg.Number)
    THEN SMSResponse(400, FALSE, "Invalid phone number",
                     <<"Phone number format is invalid">>, NoData)
    ELSE NoResponse

FirstInvalid(msgs) ==
    CHOOSE i \in 1..Len(msgs) :
        /\ ~ValidatePhone(msgs[i].Number)
        /\ \A j \in 1..(i - 1) : ValidatePhone(msgs[j].Number)

\* SendBulkSMSChecks, were a batch that exactly fills the daily limit
\* rejected too.
SendBulkSMSChecksAtLimit(msgs, client) ==
    IF ~BindBulkSMSRequest(msgs) THEN BadPayload
    ELSE IF \E i \in 1..Len(msgs) : ~ValidatePhone(msgs[i].Number)
    THEN SMSResponse(400, FALSE, "Invalid phone number in messages",
                     <<"Phone number ">> \o msgs[FirstInvalid(msgs)].Number
                        \o <<" is invalid">>, NoData)
    ELSE IF client.DailyUsage + Len(msgs) >= client.DailyLimit
    THEN SMSResponse(429, FALSE, "Bulk request would exceed daily limit",
                     <<"Requested messages exceed available daily quota">>, NoData)
    ELSE NoResponse

\* SendBulkSMSChecks, were only the first number validated.
SendBulkSMSChecksFirstNumber(msgs, client) ==
    IF ~BindBulkSMSRequest(msgs) THEN BadPayload
    ELSE IF ~ValidatePhone(msgs[1].Number)
    THEN SMSResponse(400, FALSE, "Invalid phone number in messages",
                     <<"Phone number ">> \o msgs[1].Number
                        \o <<" is invalid">>, NoData)
    ELSE IF client.DailyUsage + Len(msgs) > client.DailyLimit
    THEN SMSResponse(429, FALSE, "Bulk request would exceed daily limit",
                     <<"Requested messages exceed available daily quota">>, NoData)
    ELSE NoResponse

\* SendBulkSMSChecks, were the pre-check of the daily limit left out.
SendBulkSMSChecksNoPreCheck(msgs, client) ==
    IF ~BindBulkSMSRequest(msgs) THEN BadPayload
    ELSE IF \E i \in 1..Len(msgs) : ~ValidatePhone(msgs[i].Number)
    THEN SMSResponse(400, FALSE, "Invalid phone number in messages",
                     <<"Phone number ">> \o msgs[FirstInvalid(msgs)].Number
                        \o <<" is invalid">>, NoData)
    ELSE NoResponse

\* SendBulkSMS up to the provider call: NoResponse when it goes on to call.
SendBulkSMSChecks(msgs, client) ==
    IF ~BindBulkSMSRequest(msgs) THEN BadPayload
    ELSE IF \E i \in 1..Len(msgs) : ~ValidatePhone(msgs[i].Number)
    THEN SMSResponse(400, FALSE, "Invalid phone number in messages",
                     <<"Phone number ">> \o msgs[FirstInvalid(msgs)].Number
                        \o <<" is invalid">>, NoData)
    ELSE IF client.DailyUsage + Len(msgs) > client.DailyLimit
    THEN SMSResponse(429, FALSE, "Bulk request would exceed daily limit",
                     <<"Requested messages exceed available daily quota">>, NoData)
    ELSE NoResponse

\* Route, were the handler to run although the middleware had found a
\* quota of the client used up.
RouteThroughQuota(q, kind, key, secret, msgs) ==
    LET auth   == APIKeyAuth(apiClients, key, secret)
        found  == FindByAPIKey(apiClients, key)
        client == IF auth.ok THEN auth.client
                  ELSE apiClients[CHOOSE c \in found : TRUE]
        got    == [q EXCEPT !.kind = kind, !.apiKey = key, !.apiSecret = secret,
                            !.msgs = msgs, !.auth = auth.resp]
        checks == IF kind = "single" THEN SendSingleSMSChecks(msgs[1])
                  ELSE SendBulkSMSChecks(msgs, client)
        in     == [got EXCEPT !.apiClient = client, !.before = Usage(client)]
    IN  IF ~auth.ok /\ auth.resp.Code # 429 THEN Done(got, auth.resp, apiClients)
        ELSE IF checks # NoResponse
        THEN Done(in, checks, apiClients)
        ELSE [in  EXCEPT !.pc = "sending",
                         !.calls = Append(@, MsgData(msgs, client.Name))]

\* Route, were the provider called once for each message of the request.
RouteCallPerMessage(q, kind, key, secret, msgs) ==
    LET auth   == APIKeyAuth(apiClients, key, secret)
        got    == [q EXCEPT !.kind = kind, !.apiKey = key, !.apiSecret = secret,
                            !.msgs = msgs, !.auth = auth.resp]
        checks == IF kind = "single" THEN SendSingleSMSChecks(msgs[1])
                  ELSE SendBulkSMSChecks(msgs, auth.client)
        in     == [got EXCEPT !.apiClient = auth.client,
                              !.before = Usage(auth.client)]
    IN  IF ~auth.ok THEN Done(got, auth.resp, apiClients)
        ELSE IF checks # NoResponse
        THEN Done(in, checks, apiClients)
        ELSE [in  EXCEPT !.pc = "sending",
                         !.calls = [i \in 1..Len(msgs) |->
                                       MsgData(<<msgs[i]>>, auth.client.Name)]]

\* A request arrives at a route of the /sms group: the middleware runs, and
\* only if it does not abort, the handler runs up to its provider call.
Route(q, kind, key, secret, msgs) ==
    LET auth   == APIKeyAuth(apiClients, key, secret)
        got    == [q EXCEPT !.kind = kind, !.apiKey = key, !.apiSecret = secret,
                            !.msgs = msgs, !.auth = auth.resp]
        checks == IF kind = "single" THEN SendSingleSMSChecks(msgs[1])
                  ELSE SendBulkSMSChecks(msgs, auth.client)
        in     == [got EXCEPT !.apiClient = auth.client,
                              !.before = Usage(auth.client)]
    IN  IF ~auth.ok THEN Done(got, auth.resp, apiClients)
        ELSE IF checks # NoResponse
        THEN Done(in, checks, apiClients)
        ELSE [in  EXCEPT !.pc = "sending",
                         !.calls = Append(@, MsgData(msgs, auth.client.Name))]

\* The credentials of the clients.
OwnCredentials == {<<APIKeyOf(c), SecretOf(c)>> : c \in ClientIds}

\* Credentials the requests present: of each client, with a wrong secret,
\* with a key no client has, and with a header missing.
Credentials ==
    OwnCredentials
        \cup {<<APIKeyOf(1), "wrong">>, <<"nokey", "secret1">>, <<"", "secret1">>}

\* The text of the i-th message of a request (a text is a sequence).
Text(i) == <<"text", i>>

Messages == {SMSRequest(n, Text(1), "", "") : n \in Numbers}

\* The bodies of the bulk requests: up to MaxBatch messages, each to any of
\* the numbers, the texts all different.
Batches ==
    UNION {{[i \in 1..n |-> SMSRequest(ns[i], Text(i), "", "")] :
                ns \in [1..n -> Numbers]} : n \in 0..MaxBatch}

Arrives(r) ==
    req[r].pc = "idle" /\ (IF r = 1 THEN TRUE ELSE req[r - 1].pc # "idle")

\* An update or a reset of client id is between its read and its save.
Updating(id) ==
    \E a \in DOMAIN adm :
        adm[a].pc \in {"saving", "resetting"} /\ adm[a].client.ID = id

\* Request r has arrived, rq being the requests with it: if it stays in
\* flight, it and the requests of its client in flight are not alone.
Meet(rq, r) ==
    LET id    == rq[r].apiClient.ID
        with_ == {o \in DOMAIN rq \ {r} : InFlight(rq[o]) /\ rq[o].apiClient.ID = id}
    IN  IF ~InFlight(rq[r]) THEN rq
        ELSE [o \in DOMAIN rq |->
                IF o = r THEN [rq[o] EXCEPT !.alone = with_ = {} /\ ~Updating(id)]
                ELSE IF o \in with_ THEN [rq[o] EXCEPT !.alone = FALSE]
                ELSE rq[o]]

\* POST /api/v1/sms/send
SingleArrive(r, cred, msg) ==
    /\ Arrives(r)
    /\ req' = Meet([Forget(req) EXCEPT
                        ![r] = Route(@, "single", cred[1], cred[2], <<msg>>)], r)
    /\ UNCHANGED <<apiClients, smsLogs, now, adm, sched>>

\* POST /api/v1/sms/send/bulk
BulkArrive(r, cred, msgs) ==
    /\ Arrives(r)
    /\ req' = Meet([Forget(req) EXCEPT
                        ![r] = Route(@, "bulk", cred[1], cred[2], msgs)], r)
    /\ UNCHANGED <<apiClients, smsLogs, now, adm, sched>>

RECURSIVE Reverse(_)
Reverse(seq) == IF seq = <<>> THEN <<>> ELSE Append(Reverse(Tail(seq)), Head(seq))

\* The rows of the query, were the client_id condition left out.
LogsOfAnyClient(logs, clientID, status) ==
    SelectSeq(logs, LAMBDA e : status = "" \/ e.Status = status)

\* WHERE client_id = ? [AND status = ?], in order of creation.
LogsOf(logs, clientID, status) ==
    SelectSeq(logs, LAMBDA e :
        e.ClientID = clientID /\ (status = "" \/ e.Status = status))

\* LIMIT limit OFFSET offset
Page(rows, limit, offset) ==
    SubSeq(rows, offset + 1,
           IF offset + limit < Len(rows) THEN offset + limit ELSE Len(rows))

\* GET /api/v1/sms/logs?limit=&offset=&status=: the entries of the client,
\* with the status if one is given, the newest first, one page of them.
GetSMSLogsQuery(r, cred, status, limit, offset) ==
    LET auth == APIKeyAuth(apiClients, cred[1], cred[2])
        got  == [req[r] EXCEPT !.kind = "logs", !.apiKey = cred[1],
                               !.apiSecret = cred[2], !.auth = auth.resp,
                               !.query = LogsQuery(status, limit, offset)]
        in   == [got EXCEPT !.apiClient = auth.client, !.before = Usage(auth.client)]
        logs == Page(Reverse(LogsOf(smsLogs, auth.client.ID, status)), limit, offset)
    IN  /\ Arrives(r)
        /\ req' = [Forget(req) EXCEPT ![r] =
               IF ~auth.ok THEN Done(got, auth.resp, apiClients)
               ELSE Done(in, SMSResponse(200, TRUE, "Logs retrieved successfully",
                                         <<>>, logs), apiClients)]
        /\ UNCHANGED <<apiClients, smsLogs, now, adm, sched>>

\* GET /api/v1/sms/logs with the default parameters.
GetSMSLogs(r, cred) == GetSMSLogsQuery(r, cred, "", 50, 0)

\* models.ClientStats
ClientStats(client) ==
    [client_id     |-> client.ID,
     daily_usage   |-> client.DailyUsage,
     monthly_usage |-> client.MonthlyUsage,
     daily_limit   |-> client.DailyLimit,
     monthly_limit |-> client.MonthlyLimit,
     is_active     |-> client.IsActive]

\* GetStats, were the statistics of a client whose quota is used up given
\* out.
GetStatsPastQuota(r, cred) ==
    LET auth   == APIKeyAuth(apiClients, cred[1], cred[2])
        found  == FindByAPIKey(apiClients, cred[1])
        client == IF auth.ok THEN auth.client
                  ELSE apiClients[CHOOSE c \in found : TRUE]
        got    == [req[r] EXCEPT !.kind = "stats", !.apiKey = cred[1],
                                 !.apiSecret = cred[2], !.auth = auth.resp]
        in     == [got EXCEPT !.apiClient = client, !.before = Usage(client)]
    IN  /\ Arrives(r)
        /\ req' = [Forget(req) EXCEPT ![r] =
               IF ~auth.ok /\ auth.resp.Code # 429
               THEN Done(got, auth.resp, apiClients)
               ELSE Done(in, SMSResponse(200, TRUE,
                                         "Statistics retrieved successfully",
                                         <<>>, ClientStats(client)), apiClients)]
        /\ UNCHANGED <<apiClients, smsLogs, now, adm, sched>>

\* GET /api/v1/sms/stats: the middleware runs, and only if it does not
\* abort, the handler gives the statistics of the row in the context.
GetStats(r, cred) ==
    LET auth == APIKeyAuth(apiClients, cred[1], cred[2])
        got  == [req[r] EXCEPT !.kind = "stats", !.apiKey = cred[1],
                               !.apiSecret = cred[2], !.auth = auth.resp]
        in   == [got EXCEPT !.apiClient = auth.client, !.before = Usage(auth.client)]
    IN  /\ Arrives(r)
        /\ req' = [Forget(req) EXCEPT ![r] =
               IF ~auth.ok THEN Done(got, auth.resp, apiClients)
               ELSE Done(in, SMSResponse(200, TRUE,
                                         "Statistics retrieved successfully",
                                         <<>>, ClientStats(auth.client)),
                         apiClients)]
        /\ UNCHANGED <<apiClients, smsLogs, now, adm, sched>>

\* SendSingleSMS from the return of the provider call to the log entry, and
\* to the response when the message was not sent.
SingleReturn(r, exch) ==
    LET q0    == req[r]
        msg   == q0.msgs[1]
        out   == SendSMS(exch)
        q     == [q0 EXCEPT !.responses = out.responses, !.err = out.err,
                            !.exch = exch]
        resp  == out.responses[1]
        id    == Len(smsLogs) + 1
    IN  /\ q0.pc = "sending" /\ q0.kind = "single"
        /\ IF out.err # ""
           THEN /\ smsLogs' = DBCreate(smsLogs,
                       SMSLog(r, q.apiClient.ID, msg.Number, msg, "failed",
                              "error", "", out.err))
                /\ req' = [Forget(req) EXCEPT ![r] = Done(q,
                       SMSResponse(500, FALSE, "Failed to send SMS", <<out.err>>,
                                   NoData), apiClients)]
           ELSE IF Len(out.responses) > 0 /\ ~IsSuccess(resp.Status)
           THEN /\ smsLogs' = DBCreate(smsLogs,
                       SMSLog(r, q.apiClient.ID, FormatPhone(msg.Number), msg,
                              "failed", resp.Status, resp.Message, resp.Message))
                /\ req' = [Forget(req) EXCEPT ![r] = Done(q,
                       SMSResponse(200, FALSE, "SMS failed to send", <<resp.Message>>,
                           [log_id |-> id, recipient |-> FormatPhone(msg.Number),
                            status |-> "failed"]), apiClients)]
           ELSE /\ smsLogs' = DBCreate(smsLogs,
                       SMSLog(r, q.apiClient.ID, FormatPhone(msg.Number), msg,
                              "sent", "Success",
                              IF Len(out.responses) > 0 THEN resp.Message
                              ELSE "SMS sent successfully", ""))
                /\ req' = [Forget(req) EXCEPT ![r] =
                       [q EXCEPT !.pc = "saving",
                                 !.results = <<[log_id |-> id,
                                     recipient |-> FormatPhone(msg.Number),
                                     status |-> "sent"]>>]]
        /\ UNCHANGED <<apiClients, now, adm, sched>>

\* AddUsage, were the monthly counter left as it is.
AddUsageDailyOnly(client, n) == [client EXCEPT !.DailyUsage = @ + n]

\* The usage update, were the counters counted down.
AddUsageCountsDown(client, n) ==
    [client EXCEPT !.DailyUsage = @ - n, !.MonthlyUsage = @ - n]

\* The counters after n more sent messages.
AddUsage(client, n) ==
    [client EXCEPT !.DailyUsage = @ + n, !.MonthlyUsage = @ + n]

\* SendSingleSMS: the usage update of a sent message, and the response.
SingleSave(r) ==
    LET q      == req[r]
        client == AddUsage(q.apiClient, 1)
    IN  /\ q.pc = "saving" /\ q.kind = "single"
        /\ apiClients' = DBSave(apiClients, client)
        /\ req' = [Forget(req) EXCEPT ![r] =
               Done([q EXCEPT !.apiClient = client,
                              !.saved = Append(@, Usage(client))],
               SMSResponse(200, TRUE, "SMS sent successfully", <<>>,
                   [log_id    |-> q.results[1].log_id,
                    recipient |-> q.results[1].recipient,
                    status    |-> "sent",
                    provider_response |->
                        [status  |-> "Success",
                         message |-> IF Len(q.responses) > 0
                                     THEN q.responses[1].Message
                                     ELSE "SMS sent successfully"]]),
               apiClients')]
        /\ UNCHANGED <<smsLogs, now, adm, sched>>

\* SendBulkSMS: the response matched with message i.
BulkResponseFor(responses, i) ==
    IF i <= Len(responses) THEN responses[i]
    ELSE IF Len(responses) > 0 THEN responses[1]
    ELSE SMSProviderResponse("", "")

\* SendBulkSMS: one round of the loop over the messages, for the next
\* message of request r: the entry it creates and the handler's variables.
BulkEntry(r, q) ==
    LET i    == q.i + 1
        msg  == q.msgs[i]
        resp == BulkResponseFor(q.responses, i)
    IN  IF ~IsSuccess(resp.Status)
        THEN SMSLog(r, q.apiClient.ID, FormatPhone(msg.Number), msg, "failed",
                    resp.Status, resp.Message, resp.Message)
        ELSE SMSLog(r, q.apiClient.ID, FormatPhone(msg.Number), msg, "sent",
                    "Success", "SMS sent successfully", "")

\* BulkRound, were every entry counted as sent.
BulkRoundCountsAll(r, q, id) ==
    LET entry == BulkEntry(r, q)
        i     == q.i + 1
    IN  [q EXCEPT !.i = i,
                  !.successCount = @ + 1,
                  !.results = Append(@, [log_id |-> id,
                                         recipient |-> entry.Recipient,
                                         status |-> entry.Status]),
                  !.pc = IF i = Len(q.msgs) THEN "saving" ELSE "logging"]

BulkRound(r, q, id) ==
    LET entry == BulkEntry(r, q)
        sent  == entry.Status = "sent"
        i     == q.i + 1
    IN  [q EXCEPT !.i = i,
                  !.successCount = IF sent THEN @ + 1 ELSE @,
                  !.failedCount = IF sent THEN @ ELSE @ + 1,
                  !.results = Append(@, [log_id |-> id,
                                         recipient |-> entry.Recipient,
                                         status |-> entry.Status]),
                  !.pc = IF i = Len(q.msgs) THEN "saving" ELSE "logging"]

\* SendBulkSMS from the return of the provider call: a transport error ends
\* the request, otherwise the first message is logged.
BulkReturn(r, exch) ==
    LET q   == req[r]
        out == SendSMS(exch)
        q1  == [q EXCEPT !.responses = out.responses, !.err = out.err,
                         !.exch = exch]
    IN  /\ q.pc = "sending" /\ q.kind = "bulk"
        /\ IF out.err # ""
           THEN /\ req' = [Forget(req) EXCEPT ![r] = Done(q1,
                       SMSResponse(500, FALSE, "Failed to send bulk SMS",
                                   <<out.err>>, NoData), apiClients)]
                /\ UNCHANGED smsLogs
           ELSE /\ smsLogs' = DBCreate(smsLogs, BulkEntry(r, q1))
                /\ req' = [Forget(req) EXCEPT ![r] = BulkRound(r, q1, Len(smsLogs) + 1)]
        /\ UNCHANGED <<apiClients, now, adm, sched>>

\* SendBulkSMS: a later round of the loop.
BulkCreate(r) ==
    LET q == req[r]
    IN  /\ q.pc = "logging" /\ q.kind = "bulk"
        /\ smsLogs' = DBCreate(smsLogs, BulkEntry(r, q))
        /\ req' = [Forget(req) EXCEPT ![r] = BulkRound(r, q, Len(smsLogs) + 1)]
        /\ UNCHANGED <<apiClients, now, adm, sched>>

\* BulkSave, were success false when no message of the batch was sent.
BulkSaveFlagsAllFailed(r) ==
    LET q      == req[r]
        client == AddUsage(q.apiClient, q.successCount)
    IN  /\ q.pc = "saving" /\ q.kind = "bulk"
        /\ apiClients' = DBSave(apiClients, client)
        /\ req' = [Forget(req) EXCEPT ![r] =
               Done([q EXCEPT !.apiClient = client,
                              !.saved = Append(@, Usage(client))],
               SMSResponse(200, q.successCount > 0,
                   "Bulk SMS processing completed", <<>>,
                   [total      |-> Len(q.msgs),
                    successful |-> q.successCount,
                    failed     |-> q.failedCount,
                    results    |-> q.results]), apiClients')]
        /\ UNCHANGED <<smsLogs, now, adm, sched>>

\* SendBulkSMS: the usage update and the response.
BulkSave(r) ==
    LET q      == req[r]
        client == AddUsage(q.apiClient, q.successCount)
    IN  /\ q.pc = "saving" /\ q.kind = "bulk"
        /\ apiClients' = DBSave(apiClients, client)
        /\ req' = [Forget(req) EXCEPT ![r] =
               Done([q EXCEPT !.apiClient = client,
                              !.saved = Append(@, Usage(client))],
               SMSResponse(200, TRUE, "Bulk SMS processing completed", <<>>,
                   [total      |-> Len(q.msgs),
                    successful |-> q.successCount,
                    failed     |-> q.failedCount,
                    results    |-> q.results]), apiClients')]
        /\ UNCHANGED <<smsLogs, now, adm, sched>>

\* ------------------------------------------------------------ administration

\* An Authorization header is the sequence of its parts around the first
\* space, none for an empty header; the second part is the base64 form of a
\* text, or not base64; a text is the sequence of its fields around colons.
B64(text) == <<"b64", text>>

NotB64 == <<"raw", "%%%">>

\* base64.StdEncoding.DecodeString
DecodeString(payload) ==
    IF payload[1] = "b64" THEN [ok |-> TRUE, text |-> payload[2]]
    ELSE [ok |-> FALSE, text |-> <<>>]

\* getEnv("ADMIN_USER", "admin"), getEnv("ADMIN_PASSWORD", "admin")
ExpectedUser == "admin"

ExpectedPass == "admin"

BasicAbort(message) ==
    [ok |-> FALSE, resp |-> SMSResponse(401, FALSE, message, <<>>, NoData)]

\* BasicAuth, were the user name alone compared.
BasicAuthUserOnly(header) ==
    IF header = <<>> THEN BasicAbort("Authorization required")
    ELSE IF Len(header) # 2 \/ header[1] # "Basic"
    THEN BasicAbort("Invalid authorization header")
    ELSE IF ~DecodeString(header[2]).ok
    THEN BasicAbort("Invalid authorization header")
    ELSE LET credentials == DecodeString(header[2]).text
         IN  IF Len(credentials) # 2
             THEN BasicAbort("Invalid credentials format")
             ELSE IF credentials[1] # ExpectedUser
             THEN BasicAbort("Invalid credentials")
             ELSE [ok |-> TRUE, resp |-> NoResponse]

\* The BasicAuth middleware of the /admin group.
BasicAuth(header) ==
    IF header = <<>> THEN BasicAbort("Authorization required")
    ELSE IF Len(header) # 2 \/ header[1] # "Basic"
    THEN BasicAbort("Invalid authorization header")
    ELSE IF ~DecodeString(header[2]).ok
    THEN BasicAbort("Invalid authorization header")
    ELSE LET credentials == DecodeString(header[2]).text
         IN  IF Len(credentials) # 2
             THEN BasicAbort("Invalid credentials format")
             ELSE IF credentials[1] # ExpectedUser \/ credentials[2] # ExpectedPass
             THEN BasicAbort("Invalid credentials")
             ELSE [ok |-> TRUE, resp |-> NoResponse]

\* The goroutine of an admin request: where it is, the Authorization header
\* it came with when the model shows its way through BasicAuth (pc
\* "admitted" after it; the specifications without the gate begin a request
\* at its handler), the route, the row it has read and changed, the
\* status of its response, and the length of the log when a reset wrote its
\* zeroed row (logged).
IdleAdm ==
    [pc |-> "idle", header |-> <<>>, op |-> "", id |-> 0, before |-> NoUsage,
     client |-> NoClient, code |-> 0, logged |-> 0]

\* The handler of an admin request may begin.
AdminBegins(a) ==
    /\ adm[a].pc \in {"idle", "admitted"}
    /\ (IF a = 1 THEN TRUE ELSE adm[a - 1].pc # "idle")

\* A request arrives at a route of the /admin group: BasicAuth admits it to
\* the handler or answers 401.
AdminGate(a, header) ==
    /\ adm[a].pc = "idle" /\ (IF a = 1 THEN TRUE ELSE adm[a - 1].pc # "idle")
    /\ adm' = [adm EXCEPT ![a] =
           IF BasicAuth(header).ok
           THEN [IdleAdm EXCEPT !.pc = "admitted", !.header = header]
           ELSE [IdleAdm EXCEPT !.pc = "done", !.header = header,
                                !.code = BasicAuth(header).resp.Code]]
    /\ UNCHANGED <<apiClients, smsLogs, now, req, sched>>

\* CreateClient for the client c the request names by its email: 409 when a
\* row with the email exists, else the row is created.
CreateClientRoute(a, c) ==
    /\ AdminBegins(a)
    /\ IF c \in DOMAIN apiClients
       THEN /\ adm' = [adm EXCEPT ![a] =
                   [@ EXCEPT !.pc = "done", !.op = "create", !.id = c, !.code = 409]]
            /\ UNCHANGED apiClients
       ELSE /\ adm' = [adm EXCEPT ![a] =
                   [@ EXCEPT !.pc = "done", !.op = "create", !.id = c, !.code = 201]]
            /\ apiClients' = [d \in DOMAIN apiClients \cup {c} |->
                   IF d = c THEN CreateClient(c, 0, 0, 0, now) ELSE apiClients[d]]
    /\ UNCHANGED <<smsLogs, now, req, sched>>

\* ListClients: the rows are read.
ListClients(a) ==
    /\ AdminBegins(a)
    /\ adm' = [adm EXCEPT ![a] = [@ EXCEPT !.pc = "done", !.op = "list", !.code = 200]]
    /\ UNCHANGED <<apiClients, smsLogs, now, req, sched>>

\* The fields an update request sets (the others are nil).
Patch(hasIsActive, isActive, hasDailyLimit, dailyLimit) ==
    [hasIsActive |-> hasIsActive, IsActive |-> isActive,
     hasDailyLimit |-> hasDailyLimit, DailyLimit |-> dailyLimit]

Patches == {Patch(TRUE, FALSE, FALSE, 0)}

\* UpdateClient: the row is read and the request's fields are set in it.
UpdateClientRead(a, id, patch) ==
    /\ AdminBegins(a)
    /\ id \in DOMAIN apiClients
    /\ adm' = [adm EXCEPT ![a] =
           [adm[a] EXCEPT !.pc = "saving", !.op = "update", !.id = id,
                           !.before = Usage(apiClients[id]), !.client =
              [apiClients[id] EXCEPT
                !.IsActive = IF patch.hasIsActive THEN patch.IsActive ELSE @,
                !.DailyLimit = IF patch.hasDailyLimit THEN patch.DailyLimit ELSE @]]]
    /\ req' = [r \in DOMAIN req |->
                 IF InFlight(req[r]) /\ req[r].apiClient.ID = id
                 THEN [req[r] EXCEPT !.alone = FALSE] ELSE req[r]]
    /\ UNCHANGED <<apiClients, smsLogs, now, sched>>

\* UpdateClient: the row is saved.
UpdateClientSave(a) ==
    /\ adm[a].pc = "saving"
    /\ apiClients' = DBSave(apiClients, adm[a].client)
    /\ adm' = [adm EXCEPT ![a].pc = "done", ![a].code = 200]
    /\ UNCHANGED <<smsLogs, now, req, sched>>

\* The ids admin requests name: those of the clients and one of no client.
AdminIds == ClientIds \cup {0}

\* ResetClientUsage, were the monthly counter left as it is.
ResetUsageDailyOnly(client, t) ==
    [client EXCEPT !.DailyUsage = 0, !.LastReset = t]

\* The row ResetClientUsage saves, at instant t.
ResetUsage(client, t) ==
    [client EXCEPT !.DailyUsage = 0, !.MonthlyUsage = 0, !.LastReset = t]

\* ResetClientUsage: the row is read, and zeroed and stamped in memory; 404
\* when there is none.
ResetClientUsageRead(a, id) ==
    /\ AdminBegins(a)
    /\ adm' = [adm EXCEPT ![a] =
           IF id \notin DOMAIN apiClients
           THEN [adm[a] EXCEPT !.pc = "done", !.op = "reset", !.id = id,
                               !.code = 404]
           ELSE [adm[a] EXCEPT !.pc = "resetting", !.op = "reset", !.id = id,
                                !.before = Usage(apiClients[id]),
                                !.client = ResetUsage(apiClients[id], now)]]
    /\ req' = [r \in DOMAIN req |->
                 IF InFlight(req[r]) /\ req[r].apiClient.ID = id
                 THEN [req[r] EXCEPT !.alone = FALSE] ELSE req[r]]
    /\ UNCHANGED <<apiClients, smsLogs, now, sched>>

\* ResetClientUsage: the row is saved.
ResetClientUsageSave(a) ==
    /\ adm[a].pc = "resetting"
    /\ apiClients' = DBSave(apiClients, adm[a].client)
    /\ adm' = [adm EXCEPT ![a].pc = "done", ![a].code = 200,
                          ![a].logged = Len(smsLogs)]
    /\ UNCHANGED <<smsLogs, now, req, sched>>

\* ---------------------------------------------------------------- scheduler

\* time.Now().AddDate(0, 0, -1) and AddDate(0, -1, 0), in ticks.
Day == TicksPerDay

Month == TicksPerDay * DaysPerMonth

\* The clock stops here.
MaxTime == Month + Day

\* The midnight, and the first of the month, that follow instant t.
NextMidnight(t) == ((t \div Day) + 1) * Day

NextMonth(t) == ((t \div Month) + 1) * Month

\* StartUsageResetScheduler at instant t: both loops compute their boundary
\* and sleep.
StartUsageResetScheduler(t) ==
    [daily |-> NextMidnight(t), monthly |-> NextMonth(t)]

\* The rows an UPDATE ... WHERE last_reset < limit selects.  Two instants of
\* one tick are not ordered by the clock of the model: whether a row stamped
\* in the tick of the limit is selected is open (later), as the delays of
\* the two stamps within their ticks are.
Before(db, limit, later) ==
    {c \in DOMAIN db : db[c].LastReset < limit \/ (later /\ db[c].LastReset = limit)}

\* ResetDailyUsage, were both counters set to zero.
ResetDailyUsageZeroesBoth(db, t, later) ==
    [c \in DOMAIN db |->
        IF c \in Before(db, t - Day, later)
        THEN [db[c] EXCEPT !.DailyUsage = 0, !.MonthlyUsage = 0, !.LastReset = t]
        ELSE db[c]]

ResetDailyUsage(db, t, later) ==
    [c \in DOMAIN db |->
        IF c \in Before(db, t - Day, later)
        THEN [db[c] EXCEPT !.DailyUsage = 0, !.LastReset = t]
        ELSE db[c]]

ResetMonthlyUsage(db, t, later) ==
    [c \in DOMAIN db |->
        IF c \in Before(db, t - Month, later)
        THEN [db[c] EXCEPT !.MonthlyUsage = 0, !.LastReset = t]
        ELSE db[c]]

\* No request is being served.
Quiet ==
    /\ \A r \in DOMAIN req : ~InFlight(req[r])
    /\ \A a \in DOMAIN adm : adm[a].pc \in {"idle", "done"}

\* The requests, those in flight whose client is among `rows` having met a
\* reset of the scheduler.
MeetReset(rq, rows) ==
    [r \in DOMAIN rq |->
        IF InFlight(rq[r]) /\ rq[r].apiClient.ID \in rows
        THEN [rq[r] EXCEPT !.reset = TRUE] ELSE rq[r]]

\* Time passes, up to instant `until`, while no loop of the scheduler is due.
Pass(until) ==
    /\ now < until
    /\ now < sched.daily /\ now < sched.monthly
    /\ now' = now + 1
    /\ UNCHANGED <<apiClients, smsLogs, req, adm, sched>>

\* Time passes: a tick, up to instant `until`, while no loop of the scheduler
\* is due and no request is being served (a request takes less than a tick).
Tick(until) ==
    /\ now < until
    /\ now < sched.daily /\ now < sched.monthly
    /\ Quiet
    /\ now' = now + 1
    /\ UNCHANGED <<apiClients, smsLogs, req, adm, sched>>

\* The daily loop wakes at its midnight, resets and sleeps to the next.
DailyReset(later) ==
    /\ now >= sched.daily
    /\ apiClients' = ResetDailyUsage(apiClients, now, later)
    /\ sched' = [sched EXCEPT !.daily = NextMidnight(now)]
    /\ req' = MeetReset(req, Before(apiClients, now - Day, later))
    /\ UNCHANGED <<smsLogs, now, adm>>

\* The monthly loop wakes on its first of the month, resets and sleeps.
MonthlyReset(later) ==
    /\ now >= sched.monthly
    /\ apiClients' = ResetMonthlyUsage(apiClients, now, later)
    /\ sched' = [sched EXCEPT !.monthly = NextMonth(now)]
    /\ req' = MeetReset(req, Before(apiClients, now - Month, later))
    /\ UNCHANGED <<smsLogs, now, adm>>

\* ----------------------------------------------------------- specifications

\* The row of a client the administrator created with limits l and may have
\* deactivated since.
Row(c, l, isActive) ==
    [CreateClient(c, 0, l[1], l[2], 0) EXCEPT !.IsActive = isActive]

\* The clients exist and have sent nothing; no request has arrived.
Init ==
    /\ apiClients \in {[c \in ClientIds |-> Row(c, l, b)] :
                            l \in Limits, b \in BOOLEAN}
    /\ smsLogs = <<>>
    /\ now = 0
    /\ req = [r \in Reqs |-> IdleReq]
    /\ adm = [a \in Admins |-> IdleAdm]
    /\ sched = StartUsageResetScheduler(0)

\* The send routes.
Next ==
    \/ \E r \in Reqs, cred \in Credentials, msg \in Messages :
            SingleArrive(r, cred, msg)
    \/ \E r \in Reqs, cred \in Credentials, msgs \in Batches :
            BulkArrive(r, cred, msgs)
    \/ \E r \in Reqs, exch \in Exchanges : SingleReturn(r, exch)
    \/ \E r \in Reqs : SingleSave(r)
    \/ \E r \in Reqs, exch \in Exchanges : BulkReturn(r, exch)
    \/ \E r \in Reqs : BulkCreate(r)
    \/ \E r \in Reqs : BulkSave(r)

Spec == Init /\ [][Next]_vars

\* The send routes and the administrator's updates.
AdminNext ==
    \/ Next
    \/ \E a \in Admins, id \in ClientIds, patch \in Patches :
            UpdateClientRead(a, id, patch)
    \/ \E a \in Admins : UpdateClientSave(a)

AdminSpec == Init /\ [][AdminNext]_vars

\* Authentication against any stored row: the counters of a row are at,
\* below or one above its limits, and the client is active or not.
AuthInit ==
    /\ apiClients \in
         {[c \in ClientIds |->
             [Row(c, l, b) EXCEPT !.DailyUsage = d, !.MonthlyUsage = m]] :
                l \in Limits, b \in BOOLEAN, d \in 0..3, m \in 0..4}
    /\ smsLogs = <<>>
    /\ now = 0
    /\ req = [r \in Reqs |-> IdleReq]
    /\ adm = [a \in Admins |-> IdleAdm]
    /\ sched = StartUsageResetScheduler(0)

AuthNext ==
    \/ \E r \in Reqs, cred \in Credentials, msg \in Messages :
            SingleArrive(r, cred, msg)

AuthSpec == AuthInit /\ [][AuthNext]_vars

\* The server starts on a database whose clients were created a day ago.
SeqInit ==
    /\ apiClients \in {[c \in ClientIds |->
                            [Row(c, l, TRUE) EXCEPT !.LastReset = 0 - Day]] :
                            l \in Limits}
    /\ smsLogs = <<>>
    /\ now = 0
    /\ req = [r \in Reqs |-> IdleReq]
    /\ adm = [a \in Admins |-> IdleAdm]
    /\ sched = StartUsageResetScheduler(0)

\* Every operation, one at a time, up to the first midnight: a request
\* arrives, and the reset of the scheduler runs, when no request is being
\* served.
SeqNext ==
    \/ \E r \in Reqs, cred \in OwnCredentials, msg \in Messages :
            Quiet /\ SingleArrive(r, cred, msg)
    \/ \E r \in Reqs, cred \in OwnCredentials, msgs \in Batches :
            Quiet /\ BulkArrive(r, cred, msgs)
    \/ \E r \in Reqs, cred \in OwnCredentials : Quiet /\ GetSMSLogs(r, cred)
    \/ \E r \in Reqs, exch \in Exchanges \ {ExchRaw} : SingleReturn(r, exch)
    \/ \E r \in Reqs : SingleSave(r)
    \/ \E r \in Reqs, exch \in Exchanges \ {ExchRaw} : BulkReturn(r, exch)
    \/ \E r \in Reqs : BulkCreate(r)
    \/ \E r \in Reqs : BulkSave(r)
    \/ \E a \in Admins, id \in ClientIds, patch \in Patches :
            Quiet /\ UpdateClientRead(a, id, patch)
    \/ \E a \in Admins : UpdateClientSave(a)
    \/ \E a \in Admins, id \in AdminIds : Quiet /\ ResetClientUsageRead(a, id)
    \/ \E a \in Admins : ResetClientUsageSave(a)
    \/ Tick(Day)
    \/ \E later \in BOOLEAN : Quiet /\ DailyReset(later)

SeqSpec == SeqInit /\ [][SeqNext]_vars

\* The server starts on a database whose clients were created a day ago and
\* have counters below, at or above their limits; the administrator may have
\* set the daily limit of a client to 0 since (UpdateClient takes any value).
ResetInit ==
    /\ apiClients \in
         {[c \in ClientIds |->
             [Row(c, l, TRUE) EXCEPT !.DailyLimit = IF zero THEN 0 ELSE @,
                                     !.DailyUsage = d, !.MonthlyUsage = m,
                                     !.LastReset = 0 - Day]] :
                l \in Limits, zero \in BOOLEAN, d \in 0..3, m \in 0..4}
    /\ smsLogs = <<>>
    /\ now = 0
    /\ req = [r \in Reqs |-> IdleReq]
    /\ adm = [a \in Admins |-> IdleAdm]
    /\ sched = StartUsageResetScheduler(0)

\* The admin reset and single sends, one at a time, within a day.
ResetNext ==
    \/ \E r \in Reqs, cred \in OwnCredentials, msg \in Messages :
            Quiet /\ SingleArrive(r, cred, msg)
    \/ \E r \in Reqs, exch \in Exchanges \ {ExchRaw} : SingleReturn(r, exch)
    \/ \E r \in Reqs : SingleSave(r)
    \/ \E a \in Admins, id \in AdminIds : Quiet /\ ResetClientUsageRead(a, id)
    \/ \E a \in Admins : ResetClientUsageSave(a)
    \/ Tick(Day - 1)

ResetSpec == ResetInit /\ [][ResetNext]_vars

\* The status values of provider replies, and the replies: one status, or an
\* array of up to MaxBatch outcomes.
StatusValues == {"Success", "success", "SUCCESS", "SuCcEsS", "Failed", ""}

ArrayReplies ==
    UNION {{ExchArray(outs) : outs \in [1..n -> {"Success", "Failed"}]} :
                n \in 1..MaxBatch}

ReplyExchanges ==
    {ExchJSON(status, "OK") : status \in StatusValues} \cup ArrayReplies

\* A single or bulk send of a client and the reply of the provider to it;
\* the server starts as in SeqInit.
ReplyNext ==
    \/ \E cred \in OwnCredentials, msg \in Messages : SingleArrive(1, cred, msg)
    \/ \E cred \in OwnCredentials, msgs \in Batches : BulkArrive(1, cred, msgs)
    \/ \E exch \in ReplyExchanges : SingleReturn(1, exch)
    \/ SingleSave(1)
    \/ \E exch \in ReplyExchanges : BulkReturn(1, exch)
    \/ BulkCreate(1)
    \/ BulkSave(1)

ReplySpec == SeqInit /\ [][ReplyNext]_vars

\* The Authorization headers admin requests come with: none, one word, a
\* scheme other than Basic, a payload that is not base64, a text without a
\* colon, a wrong password, a wrong user, the API key and secret of a client,
\* and the administrator's credentials.
ValidAdminHeader == <<"Basic", B64(<<ExpectedUser, ExpectedPass>>)>>

ClientKeyHeader == <<"Basic", B64(<<APIKeyOf(1), SecretOf(1)>>)>>

AdminHeaders ==
    {<<>>, <<"Basic">>, <<"Bearer", B64(<<ExpectedUser, ExpectedPass>>)>>,
     <<"Basic", NotB64>>, <<"Basic", B64(<<ExpectedUser>>)>>,
     <<"Basic", B64(<<ExpectedUser, "wrong">>)>>,
     <<"Basic", B64(<<"root", ExpectedPass>>)>>,
     ClientKeyHeader, ValidAdminHeader}

\* The routes of the /admin group behind BasicAuth; the server starts as in
\* ResetInit.
GateNext ==
    \/ \E a \in Admins, header \in AdminHeaders : AdminGate(a, header)
    \/ \E a \in Admins, id \in ClientIds, patch \in Patches :
            adm[a].pc = "admitted" /\ UpdateClientRead(a, id, patch)
    \/ \E a \in Admins : UpdateClientSave(a)
    \/ \E a \in Admins, id \in AdminIds :
            adm[a].pc = "admitted" /\ ResetClientUsageRead(a, id)
    \/ \E a \in Admins : ResetClientUsageSave(a)
    \/ \E a \in Admins, c \in ClientIds \cup {2} :
            adm[a].pc = "admitted" /\ CreateClientRoute(a, c)
    \/ \E a \in Admins : adm[a].pc = "admitted" /\ ListClients(a)

GateSpec == ResetInit /\ [][GateNext]_vars

\* Two clients, and a log of up to MaxLogs entries, sent or failed, of
\* either of them.
LogClientIds == {1, 2}

StoredLog(items) ==
    [i \in 1..Len(items) |->
        [SMSLog(0, items[i][1], FormatPhone(NumLocal),
                SMSRequest(NumLocal, Text(i), "", ""), items[i][2],
                IF items[i][2] = "sent" THEN "Success" ELSE "Failed",
                IF items[i][2] = "sent" THEN "OK" ELSE "invalid number",
                IF items[i][2] = "sent" THEN "" ELSE "invalid number")
         EXCEPT !.ID = i]]

LogsInit ==
    /\ apiClients = [c \in LogClientIds |-> Row(c, <<2, 3>>, TRUE)]
    /\ smsLogs \in {StoredLog(items) :
                       items \in UNION {[1..n -> LogClientIds \X {"sent", "failed"}] :
                                            n \in 0..MaxLogs}}
    /\ now = 0
    /\ req = [r \in Reqs |-> IdleReq]
    /\ adm = [a \in Admins |-> IdleAdm]
    /\ sched = StartUsageResetScheduler(0)

\* Log retrievals of either client, with and without a status filter, with
\* the default page and with a page of one entry after the first.
LogsNext ==
    \/ \E r \in Reqs, c \in LogClientIds, status \in {"", "sent", "failed"},
           page \in {<<50, 0>>, <<1, 1>>} :
            GetSMSLogsQuery(r, <<APIKeyOf(c), SecretOf(c)>>, status,
                            page[1], page[2])

LogsSpec == LogsInit /\ [][LogsNext]_vars

\* One single send with any raw number; the server starts as in SeqInit.
\* The bodies of single sends, one for each raw number.
PhoneMessages == {SMSRequest(n, Text(1), "", "") : n \in RawNumbers}

PhoneNext ==
    \/ \E cred \in OwnCredentials, msg \in PhoneMessages :
            SingleArrive(1, cred, msg)
    \/ \E exch \in Exchanges \ {ExchRaw} : SingleReturn(1, exch)
    \/ SingleSave(1)

PhoneSpec == SeqInit /\ [][PhoneNext]_vars

\* The limits of the client whose sends meet the midnight.
RaceLimits == <<3, 5>>

\* The last tick of a day: the client was created a day ago or more and has
\* sent up to its daily limit since the last reset.
RaceInit ==
    /\ apiClients \in
         {[c \in ClientIds |->
             [Row(c, RaceLimits, TRUE) EXCEPT !.DailyUsage = d, !.MonthlyUsage = d,
                                              !.LastReset = 0 - Day]] :
                d \in 0..RaceLimits[1]}
    /\ smsLogs = <<>>
    /\ now = Day - 1
    /\ req = [r \in Reqs |-> IdleReq]
    /\ adm = [a \in Admins |-> IdleAdm]
    /\ sched = StartUsageResetScheduler(Day - 1)

\* Single sends of one client, any number of them in flight at once, while
\* midnight comes and the daily loop resets.
RaceNext ==
    \/ \E r \in Reqs, cred \in OwnCredentials, msg \in Messages :
            SingleArrive(r, cred, msg)
    \/ \E r \in Reqs, exch \in Exchanges \ {ExchRaw} : SingleReturn(r, exch)
    \/ \E r \in Reqs : SingleSave(r)
    \/ Pass(Day)
    \/ \E later \in BOOLEAN : DailyReset(later)

RaceSpec == RaceInit /\ [][RaceNext]_vars

\* Both loops of the scheduler over a month and a day, with single sends and
\* admin resets served one at a time between the ticks; the server starts
\* as in SeqInit.
SchedNext ==
    \/ \E r \in Reqs, cred \in OwnCredentials, msg \in Messages :
            Quiet /\ SingleArrive(r, cred, msg)
    \/ \E r \in Reqs, exch \in Exchanges \ {ExchRaw} : SingleReturn(r, exch)
    \/ \E r \in Reqs : SingleSave(r)
    \/ \E a \in Admins, id \in AdminIds : Quiet /\ ResetClientUsageRead(a, id)
    \/ \E a \in Admins : ResetClientUsageSave(a)
    \/ Tick(MaxTime)
    \/ \E later \in BOOLEAN : Quiet /\ DailyReset(later)
    \/ \E later \in BOOLEAN : Quiet /\ MonthlyReset(later)

SchedSpec == SeqInit /\ [][SchedNext]_vars

\* A client with a daily limit of 2 and a monthly limit out of reach.
WindowLimits == <<2, 9>>

WindowInit ==
    /\ apiClients = [c \in ClientIds |-> Row(c, WindowLimits, TRUE)]
    /\ smsLogs = <<>>
    /\ now = 0
    /\ req = [r \in Reqs |-> IdleReq]
    /\ adm = [a \in Admins |-> IdleAdm]
    /\ sched = StartUsageResetScheduler(0)

\* POST /api/v1/sms/send on connection r, once the request before it on
\* that connection has ended.
WindowArrive(r, cred, msg) ==
    /\ ~InFlight(req[r])
    /\ Len(smsLogs) + Cardinality({o \in Reqs : InFlight(req[o])}) < MaxSends
    /\ req' = Meet([Forget(req) EXCEPT
                        ![r] = Route(IdleReq, "single", cred[1], cred[2], <<msg>>)], r)
    /\ UNCHANGED <<apiClients, smsLogs, now, adm, sched>>

\* The body of the sends, with a valid number, and the replies of the
\* provider to them.
WindowMessages == {SMSRequest(NumLocal, Text(1), "", "")}

WindowExchanges ==
    {ExchJSON("Success", "OK"), ExchJSON("Failed", "invalid number")}

\* Single sends of one client, request after request on each of MaxReq
\* connections, so that at most MaxReq are in flight at any time; no reset
\* runs and no limit changes.
WindowNext ==
    \/ \E r \in Reqs, cred \in OwnCredentials, msg \in WindowMessages :
            WindowArrive(r, cred, msg)
    \/ \E r \in Reqs, exch \in WindowExchanges : SingleReturn(r, exch)
    \/ \E r \in Reqs : SingleSave(r)

WindowSpec == WindowInit /\ [][WindowNext]_vars

\* Single and bulk sends of a client that has sent nothing, any number of
\* them in flight at once, and admin resets of its usage at any moment.
AgreeNext ==
    \/ \E r \in Reqs, cred \in OwnCredentials, msg \in Messages :
            SingleArrive(r, cred, msg)
    \/ \E r \in Reqs, cred \in OwnCredentials, msgs \in Batches :
            BulkArrive(r, cred, msgs)
    \/ \E r \in Reqs, exch \in Exchanges \ {ExchRaw} : SingleReturn(r, exch)
    \/ \E r \in Reqs : SingleSave(r)
    \/ \E r \in Reqs, exch \in Exchanges \ {ExchRaw} : BulkReturn(r, exch)
    \/ \E r \in Reqs : BulkCreate(r)
    \/ \E r \in Reqs : BulkSave(r)
    \/ \E a \in Admins, id \in ClientIds : ResetClientUsageRead(a, id)
    \/ \E a \in Admins : ResetClientUsageSave(a)

AgreeSpec == WindowInit /\ [][AgreeNext]_vars

\* The four routes of the /sms group and the admin reset, one request at a
\* time, for clients below, at and above their limits (AuthInit).
QuotaNext ==
    \/ \E r \in Reqs, cred \in OwnCredentials, msg \in Messages :
            Quiet /\ SingleArrive(r, cred, msg)
    \/ \E r \in Reqs, cred \in OwnCredentials, msgs \in Batches :
            Quiet /\ BulkArrive(r, cred, msgs)
    \/ \E r \in Reqs, cred \in OwnCredentials : Quiet /\ GetSMSLogs(r, cred)
    \/ \E r \in Reqs, cred \in OwnCredentials : Quiet /\ GetStats(r, cred)
    \/ \E r \in Reqs, exch \in Exchanges \ {ExchRaw} : SingleReturn(r, exch)
    \/ \E r \in Reqs : SingleSave(r)
    \/ \E r \in Reqs, exch \in Exchanges \ {ExchRaw} : BulkReturn(r, exch)
    \/ \E r \in Reqs : BulkCreate(r)
    \/ \E r \in Reqs : BulkSave(r)
    \/ \E a \in Admins, id \in ClientIds : Quiet /\ ResetClientUsageRead(a, id)
    \/ \E a \in Admins : ResetClientUsageSave(a)

QuotaSpec == AuthInit /\ [][QuotaNext]_vars

\* ResetDailyUsage and ResetMonthlyUsage called by a cron job or scheduler at
\* any instant, any number of times: the clients have sent and have been
\* reset at some time before; sched keeps in `runs` the last two calls
\* since the last tick, with the table each found.
CronInit ==
    /\ apiClients \in {[c \in ClientIds |->
                            [Row(c, <<2, 3>>, TRUE) EXCEPT !.DailyUsage = d,
                                                          !.MonthlyUsage = m,
                                                          !.LastReset = t]] :
                            d \in 0..2, m \in 0..2, t \in (0 - Month - 1)..0}
    /\ smsLogs = <<>>
    /\ now = 0
    /\ req = [r \in Reqs |-> IdleReq]
    /\ adm = [a \in Admins |-> IdleAdm]
    /\ sched = [daily |-> NextMidnight(0), monthly |-> NextMonth(0), runs |-> <<>>]

LastTwo(runs) == IF Len(runs) > 2 THEN Tail(runs) ELSE runs

CronDaily(later) ==
    /\ apiClients' = ResetDailyUsage(apiClients, now, later)
    /\ sched' = [sched EXCEPT !.runs =
            LastTwo(Append(@, [op |-> "daily", from |-> apiClients]))]
    /\ UNCHANGED <<smsLogs, now, req, adm>>

CronMonthly(later) ==
    /\ apiClients' = ResetMonthlyUsage(apiClients, now, later)
    /\ sched' = [sched EXCEPT !.runs =
            LastTwo(Append(@, [op |-> "monthly", from |-> apiClients]))]
    /\ UNCHANGED <<smsLogs, now, req, adm>>

CronTick ==
    /\ now < Day
    /\ now' = now + 1
    /\ sched' = [sched EXCEPT !.runs = <<>>]
    /\ UNCHANGED <<apiClients, smsLogs, req, adm>>

CronNext ==
    \/ \E later \in BOOLEAN : CronDaily(later)
    \/ \E later \in BOOLEAN : CronMonthly(later)
    \/ CronTick

CronSpec == CronInit /\ [][CronNext]_vars
\* ------------------------------------------------------------- properties

\* The log entries request r has created, in order of creation.
EntriesOf(r) == SelectSeq(smsLogs, LAMBDA e : e.Req = r)

SentOf(r) == SelectSeq(EntriesOf(r), LAMBDA e : e.Status = "sent")

\* The requests a state shows: arrived, and not forgotten.
Shown == {r \in Reqs : req[r].pc \notin {"idle", "gone"}}

EndedReqs == {r \in Reqs : req[r].pc = "done"}

\* The request passed the middleware.
Authenticated(q) == q.auth = NoResponse

\* The provider exchange of the request was made and came to a transport
\* error.
TransportError(q) == q.exch # NoExchange /\ ~q.exch.ok

PlusUsage(u, n) == [Daily |-> u.Daily + n, Monthly |-> u.Monthly + n]

\* The request changed nothing: no provider call, no log entry, no write to
\* the client's row.
Untouched(r) ==
    /\ req[r].calls = <<>>
    /\ req[r].exch = NoExchange
    /\ EntriesOf(r) = <<>>
    /\ req[r].saved = <<>>

\* C1: a single send whose provider exchange returned Status "Success", with
\* no other request of the client in flight, has created exactly one log
\* entry, which is of the message and has status sent, and the client's
\* stored dailyUsage and monthlyUsage are each exactly 1 higher than when the
\* request arrived.
SingleSuccessCountsOne ==
    \A r \in EndedReqs :
        LET q == req[r]
        IN  (q.kind = "single" /\ q.alone /\ q.exch.ok /\ q.exch.json
                /\ q.exch.Status = "Success")
            => /\ Len(EntriesOf(r)) = 1
               /\ EntriesOf(r)[1].Status = "sent"
               /\ EntriesOf(r)[1].Message = q.msgs[1].Message
               /\ EntriesOf(r)[1].Recipient = FormatPhone(q.msgs[1].Number)
               /\ EntriesOf(r)[1].ClientID = q.apiClient.ID
               /\ q.after = PlusUsage(q.before, 1)
               /\ Usage(apiClients[q.apiClient.ID]) = PlusUsage(q.before, 1)
               /\ q.resp.Code = 200 /\ q.resp.Success

SingleSuccessSeen ==
    \E r \in EndedReqs :
        /\ req[r].kind = "single" /\ req[r].alone
        /\ req[r].exch = ExchJSON("Success", "OK")
        /\ Len(EntriesOf(r)) = 1
        /\ req[r].before.Monthly = 0
        /\ apiClients[req[r].apiClient.ID].MonthlyUsage = 1

\* C2: a single send whose provider exchange returned a status other than
\* success has created exactly one log entry, with status failed and the
\* provider's status and message; it has written no counter (with no other
\* request of the client in flight the stored counters are as they were);
\* the response is HTTP 200 with success false.
SingleRejectionLogsFailed ==
    \A r \in EndedReqs :
        LET q == req[r]
        IN  (q.kind = "single" /\ q.exch.ok /\ q.exch.json
                /\ q.exch.Status \notin {"Success", "success"})
            => /\ Len(EntriesOf(r)) = 1
               /\ EntriesOf(r)[1].Status = "failed"
               /\ EntriesOf(r)[1].ProviderStatus = q.exch.Status
               /\ EntriesOf(r)[1].ProviderMessage = q.exch.Message
               /\ q.saved = <<>>
               /\ (q.alone => q.after = q.before)
               /\ q.resp.Code = 200 /\ ~q.resp.Success

SingleRejectionSeen ==
    \E r \in EndedReqs :
        /\ req[r].kind = "single"
        /\ req[r].exch = ExchJSON("Failed", "invalid number")
        /\ Len(EntriesOf(r)) = 1
        /\ EntriesOf(r)[1].ProviderMessage = "invalid number"
        /\ req[r].resp.Code = 200

\* C3: a single send whose provider exchange came to a transport error has
\* created exactly one log entry, with status failed and the error in it;
\* the response is HTTP 500 with success false; it has written no counter.
SingleTransportErrorLogsFailed ==
    \A r \in EndedReqs :
        LET q == req[r]
        IN  (q.kind = "single" /\ TransportError(q))
            => /\ Len(EntriesOf(r)) = 1
               /\ EntriesOf(r)[1].Status = "failed"
               /\ EntriesOf(r)[1].Error = "failed to send SMS request"
               /\ q.resp.Code = 500 /\ ~q.resp.Success
               /\ q.saved = <<>>
               /\ (q.alone => q.after = q.before)

SingleTransportErrorSeen ==
    \E r \in EndedReqs :
        /\ req[r].kind = "single" /\ req[r].exch = ExchError
        /\ Len(EntriesOf(r)) = 1
        /\ req[r].resp.Code = 500

\* The body of a bulk request is well formed and all its numbers are valid.
ValidBatch(msgs) ==
    /\ BindBulkSMSRequest(msgs)
    /\ \A i \in 1..Len(msgs) : ValidatePhone(msgs[i].Number)

\* C4: an authenticated bulk request of N messages with dailyUsage + N >
\* dailyLimit has ended, rejected, with no provider call, no log entry and
\* no counter written, and with HTTP 429 when its body is valid (an invalid
\* body is rejected with 400 before the pre-check); a valid batch with
\* dailyUsage + N <= dailyLimit, so with dailyUsage + N = dailyLimit, has
\* gone to the provider.
BulkPreCheck ==
    \A r \in Shown :
        LET q == req[r]
            n == Len(q.msgs)
        IN  (q.kind = "bulk" /\ Authenticated(q))
            => /\ (q.before.Daily + n > q.apiClient.DailyLimit)
                    => /\ q.pc = "done" /\ ~q.resp.Success
                       /\ Untouched(r)
                       /\ q.after = q.before
                       /\ ValidBatch(q.msgs) => q.resp.Code = 429
               /\ (ValidBatch(q.msgs) /\ q.before.Daily + n <= q.apiClient.DailyLimit)
                    => /\ q.calls # <<>>
                       /\ q.resp.Code # 429

BulkPreCheckSeen ==
    \E r \in EndedReqs :
        /\ req[r].kind = "bulk" /\ Authenticated(req[r])
        /\ ValidBatch(req[r].msgs)
        /\ req[r].before.Daily = 1 /\ Len(req[r].msgs) = 2
        /\ req[r].apiClient.DailyLimit = 2
        /\ req[r].resp.Code = 429
        /\ smsLogs # <<>>

\* C5: a bulk request of N messages whose provider exchange was made without
\* a transport error, with no other request of the client in flight, has
\* created exactly N log entries, the i-th of the i-th message; the stored
\* dailyUsage and monthlyUsage are higher by the number of entries with
\* status sent; the response has total N, successful the number of sent
\* entries, failed the number of the others, and N results, the i-th naming
\* the i-th entry.
BulkLogsEachAndCountsSent ==
    \A r \in EndedReqs :
        LET q    == req[r]
            n    == Len(q.msgs)
            es   == EntriesOf(r)
            sent == Len(SentOf(r))
        IN  (q.kind = "bulk" /\ q.alone /\ q.exch.ok)
            => /\ Len(es) = n
               /\ \A i \in 1..n :
                    /\ es[i].Message = q.msgs[i].Message
                    /\ es[i].Recipient = FormatPhone(q.msgs[i].Number)
                    /\ es[i].Status \in {"sent", "failed"}
               /\ q.after = PlusUsage(q.before, sent)
               /\ Usage(apiClients[q.apiClient.ID]) = PlusUsage(q.before, sent)
               /\ q.resp.Code = 200
               /\ q.resp.Data.total = n
               /\ q.resp.Data.successful = sent
               /\ q.resp.Data.failed = n - sent
               /\ Len(q.resp.Data.results) = n
               /\ \A i \in 1..n :
                    /\ q.resp.Data.results[i].log_id = es[i].ID
                    /\ q.resp.Data.results[i].status = es[i].Status

BulkSentSeen ==
    \E r \in EndedReqs :
        /\ req[r].kind = "bulk" /\ req[r].alone
        /\ req[r].exch = ExchJSON("Success", "OK")
        /\ Len(req[r].msgs) = 2
        /\ Len(SentOf(r)) = 2
        /\ EntriesOf(r)[2].Message = Text(2)
        /\ apiClients[req[r].apiClient.ID].DailyUsage = 2

\* C6: a bulk request whose provider exchange came to a transport error has
\* ended with HTTP 500 and success false, has created no log entry and has
\* written no counter.
BulkTransportErrorRejectsAll ==
    \A r \in EndedReqs :
        LET q == req[r]
        IN  (q.kind = "bulk" /\ TransportError(q))
            => /\ q.resp.Code = 500 /\ ~q.resp.Success
               /\ EntriesOf(r) = <<>>
               /\ q.saved = <<>>
               /\ (q.alone => q.after = q.before)

BulkTransportErrorSeen ==
    \E r \in EndedReqs :
        /\ req[r].kind = "bulk" /\ req[r].exch = ExchError
        /\ Len(req[r].msgs) = 2
        /\ req[r].resp.Code = 500
        /\ EntriesOf(r) = <<>>

\* C7: an authenticated single or bulk request one of whose numbers, at any
\* position, fails phone validation has ended with HTTP 400, with no
\* provider call, no log entry and no counter written.
InvalidNumberRejects ==
    \A r \in Shown :
        LET q == req[r]
        IN  (Authenticated(q)
                /\ \E i \in 1..Len(q.msgs) : ~ValidatePhone(q.msgs[i].Number))
            => /\ q.pc = "done"
               /\ q.resp.Code = 400 /\ ~q.resp.Success
               /\ Untouched(r)

InvalidNumberSeen ==
    \E r \in EndedReqs :
        /\ req[r].kind = "bulk" /\ Authenticated(req[r])
        /\ Len(req[r].msgs) = 2
        /\ ValidatePhone(req[r].msgs[1].Number)
        /\ ~ValidatePhone(req[r].msgs[2].Number)
        /\ req[r].resp.Code = 400

\* The rule of authentication that applies to credentials presented against
\* the stored clients, the rules taken in their order.
AuthRule(db, key, secret) ==
    LET match == {c \in DOMAIN db : db[c].APIKey = key /\
                    db[c].APISecret = GenerateFromPassword(secret)}
        row   == db[CHOOSE c \in match : TRUE]
    IN  IF key = "" \/ secret = "" THEN "MissingCredentials"
        ELSE IF match = {} THEN "InvalidCredentials"
        ELSE IF ~row.IsActive THEN "Inactive"
        ELSE IF row.DailyUsage >= row.DailyLimit THEN "DailyLimitExceeded"
        ELSE IF row.MonthlyUsage >= row.MonthlyLimit THEN "MonthlyLimitExceeded"
        ELSE "Accepted"

\* The outcome a response of the middleware stands for.
AuthOutcome(resp) ==
    IF resp = NoResponse THEN "Accepted"
    ELSE IF resp.Code = 401 /\ resp.Message = "Missing API credentials"
    THEN "MissingCredentials"
    ELSE IF resp.Code = 401 /\ resp.Message = "Invalid API credentials"
    THEN "InvalidCredentials"
    ELSE IF resp.Code = 403 THEN "Inactive"
    ELSE IF resp.Code = 429 /\ resp.Message = "Daily limit exceeded"
    THEN "DailyLimitExceeded"
    ELSE IF resp.Code = 429 /\ resp.Message = "Monthly limit exceeded"
    THEN "MonthlyLimitExceeded"
    ELSE "Other"

\* C8: the outcome of authentication is that of the first rule that applies,
\* in the order missing credentials (401), invalid credentials (401),
\* inactive (403), daily limit reached (429), monthly limit reached (429);
\* when none applies the stored row of the client is what the handler gets.
\* (Under AuthSpec no row changes, so the rows are those the request met.)
AuthDecidesInOrder ==
    \A r \in Shown :
        LET q    == req[r]
            rule == AuthRule(apiClients, q.apiKey, q.apiSecret)
        IN  /\ AuthOutcome(q.auth) = rule
            /\ rule = "Accepted" =>
                 \E c \in DOMAIN apiClients :
                    /\ q.apiClient = apiClients[c]
                    /\ q.apiClient.IsActive
                    /\ q.apiClient.DailyUsage < q.apiClient.DailyLimit
                    /\ q.apiClient.MonthlyUsage < q.apiClient.MonthlyLimit
            /\ rule # "Accepted" => q.apiClient = NoClient /\ q.pc = "done"

InactiveOverQuotaSeen ==
    \E r \in EndedReqs :
        \E c \in DOMAIN apiClients :
            /\ req[r].apiKey = APIKeyOf(c) /\ req[r].apiSecret = SecretOf(c)
            /\ ~apiClients[c].IsActive
            /\ apiClients[c].DailyUsage >= apiClients[c].DailyLimit
            /\ apiClients[c].MonthlyUsage >= apiClients[c].MonthlyLimit
            /\ req[r].auth.Code = 403

\* C9: a request the middleware aborted has ended with the middleware's
\* response, with no provider call, no log entry and no counter written.
AuthErrorTouchesNothing ==
    \A r \in Shown :
        LET q == req[r]
        IN  ~Authenticated(q)
            => /\ q.pc = "done"
               /\ q.resp = q.auth
               /\ q.resp.Code \in {401, 403, 429}
               /\ Untouched(r)

AuthErrorSeen ==
    \E r \in EndedReqs :
        /\ req[r].auth.Code = 429
        /\ req[r].auth.Message = "Daily limit exceeded"
        /\ Untouched(r)
        /\ smsLogs # <<>>

\* C10: a request with the key of a client and a wrong secret gets the
\* response, in status and in every field of the body, that the same request
\* with a key of no client gets.
WrongSecretAnswersAsUnknownKey ==
    \A r \in EndedReqs :
        LET q == req[r]
        IN  (FindByAPIKey(apiClients, q.apiKey) # {}
                /\ AuthOutcome(q.auth) = "InvalidCredentials")
            => q.resp = APIKeyAuth(apiClients, "nokey", q.apiSecret).resp

\* C11: when requests do not overlap (single sends, bulk sends, admin resets
\* and the scheduler's daily reset, in any order) and no daily limit is
\* lowered, the stored dailyUsage of every client is at most its dailyLimit.
DailyUsageWithinLimit ==
    \A c \in DOMAIN apiClients :
        apiClients[c].DailyUsage <= apiClients[c].DailyLimit

DailyLimitReachedAfterReset ==
    \E c \in DOMAIN apiClients :
        /\ apiClients[c].DailyUsage = apiClients[c].DailyLimit
        /\ apiClients[c].LastReset = Day
        /\ sched.daily > Day
        /\ Len(smsLogs) > apiClients[c].DailyLimit

\* C12: when requests do not overlap and no monthly limit is lowered, the
\* stored monthlyUsage of every client is at most its monthlyLimit.
MonthlyUsageWithinLimit ==
    \A c \in DOMAIN apiClients :
        apiClients[c].MonthlyUsage <= apiClients[c].MonthlyLimit

\* C13: while no reset occurs, no step of concurrent single and bulk sends
\* lowers the stored dailyUsage or monthlyUsage of a client.
CountersNeverDecrease ==
    [][\A c \in DOMAIN apiClients :
          /\ apiClients'[c].DailyUsage >= apiClients[c].DailyUsage
          /\ apiClients'[c].MonthlyUsage >= apiClients[c].MonthlyUsage]_vars

\* The request was handed to the provider.
Handed(q) == q.calls # <<>>

\* The log entries of request r for its i-th message (the texts of the
\* messages of a request differ).
EntriesFor(r, i) ==
    SelectSeq(EntriesOf(r), LAMBDA e : e.Message = req[r].msgs[i].Message)

SendLogAppendOnly ==
    [][/\ Len(smsLogs') >= Len(smsLogs)
       /\ SubSeq(smsLogs', 1, Len(smsLogs)) = smsLogs]_vars

\* Two entries of sent messages exist, a reset has zeroed the counter they
\* were counted in, and a log retrieval has shown them.
LogKeptThroughResetAndRetrieval ==
    \E c \in DOMAIN apiClients, r \in EndedReqs :
        /\ Len(SelectSeq(smsLogs, LAMBDA e : e.ClientID = c /\ e.Status = "sent")) >= 2
        /\ apiClients[c].DailyUsage = 0
        /\ req[r].kind = "logs" /\ req[r].resp.Code = 200
        /\ Len(req[r].resp.Data) >= 2

\* The step in which the reset of admin request a is saved.
ResetCompletes(a) == adm[a].pc = "resetting" /\ adm'[a].pc = "done"

\* The row of client c after that step: both counters 0, lastReset the
\* instant of the reset; the answer is 200.
ResetZeroes(a, c) ==
    /\ apiClients'[c].DailyUsage = 0
    /\ apiClients'[c].MonthlyUsage = 0
    /\ apiClients'[c].LastReset = now'
    /\ adm'[a].code = 200

\* The middleware does not answer the valid credentials of client c with
\* 429 on rows db.
QuotaFree(db, c) == APIKeyAuth(db, APIKeyOf(c), SecretOf(c)).resp.Code # 429

\* A reset request that names no client ends at once with 404 and leaves the
\* rows and the log as they are; one that names a client goes on.
ResetOfUnknown(a) ==
    (adm[a].pc = "idle" /\ adm'[a].op = "reset") =>
        IF adm'[a].id \in DOMAIN apiClients
        THEN adm'[a].pc = "resetting"
        ELSE /\ adm'[a].pc = "done" /\ adm'[a].code = 404
             /\ apiClients' = apiClients /\ smsLogs' = smsLogs

\* C15 as stated: when ResetClientUsage for an existing client completes with
\* no request of that client in flight, both counters are 0 and lastReset is
\* the reset instant whatever the counters were, and the client's valid
\* credentials are no longer answered with 429; for an unknown id the answer
\* is 404 and nothing changes.
AdminResetPostcondition ==
    [][\A a \in Admins :
          /\ ResetCompletes(a) =>
                /\ ResetZeroes(a, adm[a].id)
                /\ QuotaFree(apiClients', adm[a].id)
          /\ ResetOfUnknown(a)]_vars

\* C15, amended: as above, the client's valid credentials being no longer
\* answered with 429 when both of its limits are positive.
AdminResetPostconditionPositiveLimits ==
    [][\A a \in Admins :
          /\ ResetCompletes(a) =>
                /\ ResetZeroes(a, adm[a].id)
                /\ (/\ apiClients'[adm[a].id].DailyLimit > 0
                    /\ apiClients'[adm[a].id].MonthlyLimit > 0)
                        => QuotaFree(apiClients', adm[a].id)
          /\ ResetOfUnknown(a)]_vars

\* A client at its daily limit and above its monthly limit was reset after
\* time had passed, and its next request has passed the middleware.
ResetAtLimitSeen ==
    \E a \in Admins, r \in Reqs :
        /\ adm[a].pc = "done" /\ adm[a].op = "reset" /\ adm[a].code = 200
        /\ adm[a].before.Daily = apiClients[adm[a].id].DailyLimit
        /\ adm[a].before.Monthly > apiClients[adm[a].id].MonthlyLimit
        /\ apiClients[adm[a].id].LastReset > 0
        /\ InFlight(req[r]) /\ Authenticated(req[r])
        /\ req[r].apiClient.ID = adm[a].id
        /\ req[r].before = [Daily |-> 0, Monthly |-> 0]

\* C14: with up to MaxReq single sends of a client in flight at once, in any
\* order with the daily reset of the scheduler, the stored dailyUsage is
\* never negative and never above dailyLimit + MaxReq.
DailyUsageBestEffortBound ==
    \A c \in DOMAIN apiClients :
        /\ apiClients[c].DailyUsage >= 0
        /\ apiClients[c].DailyUsage <= apiClients[c].DailyLimit + MaxReq

\* Sends that were in flight together met the daily reset and saved after
\* it: the counter the reset had zeroed stands at the limit again.
ResetLostToConcurrentSends ==
    \E r \in EndedReqs :
        /\ req[r].reset /\ ~req[r].alone /\ req[r].saved # <<>>
        /\ \A o \in Reqs \ {r} : req[o].pc = "gone"
        /\ sched.daily > Day
        /\ apiClients[req[r].apiClient.ID].DailyUsage =
              apiClients[req[r].apiClient.ID].DailyLimit

\* C18: when the only send of a client, a single send, was in flight while
\* the daily reset zeroed the client, then once both have completed the
\* stored dailyUsage is within 1 of 1 (reset, then send) or of 0 (send, then
\* reset).
ResetSendRaceWithinOne ==
    \A r \in EndedReqs :
        (/\ req[r].kind = "single" /\ req[r].reset
         /\ \A o \in Reqs \ {r} : req[o].pc = "idle")
            => apiClients[req[r].apiClient.ID].DailyUsage \in (0 - 1)..2

\* C16: when the daily loop has run its reset at a midnight with no request
\* in flight, every client has dailyUsage 0, whatever its lastReset was.
DailyResetZeroesAll ==
    [][(sched'.daily # sched.daily /\ Quiet) =>
          \A c \in DOMAIN apiClients : apiClients'[c].DailyUsage = 0]_vars

\* C17: with both loops running, when the monthly loop has run its reset on
\* a first of the month, every client has monthlyUsage 0.
MonthlyResetZeroesAll ==
    [][(sched'.monthly # sched.monthly /\ Quiet) =>
          \A c \in DOMAIN apiClients : apiClients'[c].MonthlyUsage = 0]_vars

\* The raw numbers of the requests a state shows.
PhoneInputs ==
    UNION {{req[r].msgs[i].Number : i \in 1..Len(req[r].msgs)} : r \in Shown}

DigitsOf(s) == SelectSeq(s, LAMBDA ch : ch \in Digits)

\* The cleaned form of a raw number: its digits and plus signs.
Cleaned(s) == SelectSeq(s, LAMBDA ch : ch \in Digits \cup {"+"})

\* C24: phone normalization is idempotent: for every raw number n,
\* FormatPhone(FormatPhone(n)) = FormatPhone(n), and so
\* ValidatePhone(FormatPhone(n)) = ValidatePhone(n).
FormatPhoneIdempotent ==
    \A n \in PhoneInputs :
        /\ FormatPhone(FormatPhone(n)) = FormatPhone(n)
        /\ ValidatePhone(FormatPhone(n)) = ValidatePhone(n)

\* A valid number that normalization changes (zeros, a dash) has been sent
\* upstream in its normalized form.
NormalizedNumberSent ==
    \E r \in Shown :
        /\ req[r].calls # <<>>
        /\ LET n == req[r].msgs[1].Number
           IN  /\ FormatPhone(n) # n /\ FormatPhone(n) # Cleaned(n)
               /\ Head(n) = "0" /\ "-" \in {n[i] : i \in 1..Len(n)}
               /\ req[r].calls[1][1].number = FormatPhone(n)

\* C25: for every raw number whose cleaned form has no leading plus,
\* FormatPhone gives a plus, the country code 256 and the digits of the
\* input without their leading zeros, also when these digits begin with
\* 256; for a number with a leading plus the digits pass through unchanged.
NormalizationRule ==
    \A n \in PhoneInputs :
        IF ~HasPrefix(Cleaned(n), <<"+">>)
        THEN FormatPhone(n) = <<"+">> \o CountryCode \o TrimLeftZeros(DigitsOf(n))
        ELSE DigitsOf(FormatPhone(n)) = DigitsOf(n)

\* C26: ValidatePhone(n) holds exactly when FormatPhone(n) has 10 to 15
\* digits, and a send handler rejects a number with 400 exactly when it does
\* not; the empty string normalizes to +256 and is invalid.
ValidIffTenToFifteenDigits ==
    /\ FormatPhone(<<>>) = <<"+">> \o CountryCode
    /\ ~ValidatePhone(<<>>)
    /\ \A n \in PhoneInputs :
          ValidatePhone(n) <=> Len(DigitsOf(FormatPhone(n))) \in 10..15
    /\ \A r \in Shown :
          (req[r].kind = "single" /\ Authenticated(req[r])
                /\ BindSMSRequest(req[r].msgs[1])) =>
             (req[r].resp.Message = "Invalid phone number"
                <=> Len(DigitsOf(FormatPhone(req[r].msgs[1].Number))) \notin 10..15)

\* A number that normalizes to 15 digits, the most a valid number has, has
\* passed validation and has been sent upstream.
FifteenDigitsAccepted ==
    \E r \in Shown :
        /\ req[r].calls # <<>>
        /\ Len(DigitsOf(FormatPhone(req[r].msgs[1].Number))) = 15

\* The log retrievals a state shows that passed the middleware.
Retrievals ==
    {r \in EndedReqs : req[r].kind = "logs" /\ Authenticated(req[r])}

\* C21: a log retrieval of an authenticated client returns only entries of
\* the log whose ClientID is the caller's, the newest first, and with a
\* status filter only entries of that status.
LogsOwnNewestFirstFiltered ==
    \A r \in Retrievals :
        LET data == req[r].resp.Data
        IN  /\ \A i \in 1..Len(data) :
                  /\ data[i].ClientID = req[r].apiClient.ID
                  /\ data[i].ID \in 1..Len(smsLogs) /\ smsLogs[data[i].ID] = data[i]
                  /\ req[r].query.status # "" => data[i].Status = req[r].query.status
            /\ \A i, j \in 1..Len(data) : i < j => data[i].ID > data[j].ID

\* A retrieval filtered by status has returned two entries of the caller
\* from a log that holds an entry of the other client as well.
FilteredOwnLogsSeen ==
    \E r \in Retrievals :
        /\ req[r].query.status # ""
        /\ Len(req[r].resp.Data) = 2
        /\ \E i \in 1..Len(smsLogs) :
              /\ smsLogs[i].ClientID # req[r].apiClient.ID
              /\ smsLogs[i].Status = req[r].query.status

\* C22: an admin request (create, list, update, reset) goes on to its
\* handler only with the Authorization header of the configured admin
\* credentials; with any other header (none, malformed, wrong, or the API
\* key and secret of a client) it is answered 401 and leaves every client
\* and the log as they are; the clients change only in requests that came
\* with the admin credentials.
AdminGateHolds ==
    [][/\ \A a \in Admins :
            (adm[a].pc = "idle" /\ adm'[a].pc # "idle") =>
                IF adm'[a].header = ValidAdminHeader
                THEN adm'[a].pc = "admitted"
                ELSE /\ adm'[a].pc = "done" /\ adm'[a].code = 401
                     /\ apiClients' = apiClients /\ smsLogs' = smsLogs
       /\ \A a \in Admins :
            (adm'[a].op # adm[a].op) => adm[a].header = ValidAdminHeader
       /\ (apiClients' # apiClients) =>
            \E a \in Admins :
                adm[a].header = ValidAdminHeader /\ adm'[a].pc = "done"]_vars

\* A request with the API key and secret of a client as Basic credentials
\* has been answered 401.
ClientKeyRefusedSeen ==
    \E a \in Admins :
        /\ adm[a].header = ClientKeyHeader
        /\ adm[a].pc = "done" /\ adm[a].code = 401 /\ adm[a].op = ""

\* C23: once an UpdateClient that set is_active to false has completed, the
\* stored row of that client is inactive, also when sends of the client were
\* in flight while the update ran (no later update sets it to true here).
DisabledClientStaysDisabled ==
    \A a \in Admins :
        (/\ adm[a].pc = "done" /\ adm[a].op = "update" /\ adm[a].code = 200
         /\ adm[a].client.IsActive = FALSE)
            => apiClients[adm[a].id].IsActive = FALSE

\* C28: the write of a single or bulk send changes no attribute of a client
\* row other than DailyUsage and MonthlyUsage: every other attribute stays as
\* the row held it just before the write, that is, as the most recent
\* administrative write left it.
SendWritesOnlyUsage ==
    [][\A r \in Reqs :
            (req[r].pc = "saving" /\ req'[r].pc # "saving") =>
                \A c \in DOMAIN apiClients :
                    [apiClients'[c] EXCEPT !.DailyUsage = 0, !.MonthlyUsage = 0]
                        = [apiClients[c] EXCEPT !.DailyUsage = 0, !.MonthlyUsage = 0]]_vars

\* strings.ToLower on the status values.
ToLower(status) ==
    IF status \in {"Success", "success", "SUCCESS", "SuCcEsS"} THEN "success"
    ELSE IF status = "Failed" THEN "failed"
    ELSE status

\* C27: in the single and in the bulk path, every entry of a request whose
\* reply carried a status is "sent" exactly when that status equals
\* "success" without regard to case, "failed" otherwise.
ClassifiedCaseInsensitively ==
    \A r \in EndedReqs :
        (req[r].exch.ok /\ req[r].exch.json) =>
            \A i \in 1..Len(EntriesOf(r)) :
                EntriesOf(r)[i].Status =
                    IF ToLower(req[r].exch.Status) = "success" THEN "sent"
                    ELSE "failed"

\* C29: in a bulk send, with a reply of one status every message has the
\* outcome of that status; with a reply that is an array of outcomes,
\* message i has the i-th outcome, and the first outcome where the array
\* has no i-th.
BulkOutcomeMapping ==
    \A r \in EndedReqs :
        (req[r].kind = "bulk" /\ req[r].exch.ok) =>
            \A i \in 1..Len(EntriesOf(r)) :
                LET outs    == req[r].exch.outs
                    outcome == IF outs = <<>> THEN req[r].exch.Status
                               ELSE IF i <= Len(outs) THEN outs[i]
                               ELSE outs[1]
                IN  EntriesOf(r)[i].Status =
                        IF IsSuccess(outcome) THEN "sent" ELSE "failed"

\* C30: when the exchange with the provider succeeded and the body could not
\* be decoded, SendSMS returned no error and the one outcome "Failed" with
\* the raw body as message; the request is answered 200, each of its
\* messages has one entry and that is "failed", and what the request saved
\* of the counters is what it read.
UndecodableReplyRecordedFailed ==
    \A r \in EndedReqs :
        req[r].exch = ExchRaw =>
            /\ req[r].err = ""
            /\ req[r].responses = <<SMSProviderResponse("Failed", ExchRaw.Message)>>
            /\ req[r].resp.Code = 200
            /\ Len(EntriesOf(r)) = Len(req[r].msgs)
            /\ \A i \in 1..Len(EntriesOf(r)) :
                    /\ EntriesOf(r)[i].Status = "failed"
                    /\ EntriesOf(r)[i].ProviderStatus = "Failed"
            /\ \A k \in 1..Len(req[r].saved) : req[r].saved[k] = req[r].before
            /\ (req[r].alone => req[r].after = req[r].before)

\* A bulk request of several messages has ended on a reply that could not
\* be decoded, with its entries in the log.
UndecodableBulkReplySeen ==
    \E r \in EndedReqs :
        /\ req[r].exch = ExchRaw /\ req[r].kind = "bulk"
        /\ Len(req[r].msgs) > 1 /\ Len(EntriesOf(r)) = Len(req[r].msgs)

\* C31: every send request has made at most one provider call, at every
\* moment and so also after a transport error or a rejection by the
\* provider; it has made one exactly when it passed the middleware, the
\* validation and, for bulk, the pre-check of the daily limit; the call
\* carries all the messages of the request, in their order.
OneProviderCall ==
    \A r \in Shown :
        LET q     == req[r]
            n     == Len(q.msgs)
            valid == IF q.kind = "single"
                     THEN BindSMSRequest(q.msgs[1]) /\ ValidatePhone(q.msgs[1].Number)
                     ELSE /\ ValidBatch(q.msgs)
                          /\ q.before.Daily + n <= q.apiClient.DailyLimit
        IN  q.kind \in {"single", "bulk"} =>
                /\ Len(q.calls) <= 1
                /\ (Len(q.calls) = 1) <=> (Authenticated(q) /\ valid)
                /\ (q.calls # <<>>) =>
                        /\ Len(q.calls[1]) = n
                        /\ \A i \in 1..n :
                                /\ q.calls[1][i].message = q.msgs[i].Message
                                /\ q.calls[1][i].number = FormatPhone(q.msgs[i].Number)

\* A bulk request of several messages has ended on a transport error after
\* its one call.
NoSecondCallSeen ==
    \E r \in EndedReqs :
        /\ req[r].kind = "bulk" /\ Len(req[r].msgs) > 1
        /\ Len(req[r].calls) = 1 /\ Len(req[r].calls[1]) = Len(req[r].msgs)
        /\ TransportError(req[r])

\* C32: every log entry of a request, on the single and on the bulk path
\* and whatever the exchange with the provider came to, has as recipient the
\* normalized form of the number the request gave for its message.
RecipientNormalized ==
    \A r \in Shown :
        \A i \in 1..Len(req[r].msgs) :
            \A k \in 1..Len(EntriesFor(r, i)) :
                EntriesFor(r, i)[k].Recipient = FormatPhone(req[r].msgs[i].Number)

\* C33: every log entry of a request has the sender id and the priority
\* that the upstream request carried for its message: the default sender id
\* and the default priority where the request left them empty.
EntryRecordsUsedSenderAndPriority ==
    \A r \in Shown :
        req[r].calls # <<>> =>
            \A i \in 1..Len(req[r].msgs) :
                \A k \in 1..Len(EntriesFor(r, i)) :
                    /\ EntriesFor(r, i)[k].SenderID = req[r].calls[1][i].senderid
                    /\ EntriesFor(r, i)[k].Priority = req[r].calls[1][i].priority

\* C34: a daily reset has left the monthly counter of every client as it
\* found it, and a monthly reset the daily counter; after two daily resets
\* in immediate succession the counters of every client are what one daily
\* reset of the table the first found would have left.
ScheduledResetIdempotentAndLocal ==
    LET runs == sched.runs
        n    == Len(runs)
    IN  /\ n >= 1 =>
            \A c \in DOMAIN apiClients :
                /\ runs[n].op = "daily" =>
                        apiClients[c].MonthlyUsage = runs[n].from[c].MonthlyUsage
                /\ runs[n].op = "monthly" =>
                        apiClients[c].DailyUsage = runs[n].from[c].DailyUsage
        /\ (n = 2 /\ runs[1].op = "daily" /\ runs[2].op = "daily") =>
            \E later \in BOOLEAN :
                \A c \in DOMAIN apiClients :
                    Usage(apiClients[c]) =
                        Usage(ResetDailyUsage(runs[1].from, now, later)[c])

\* Two daily resets in immediate succession, the first of which set a daily
\* counter to zero, have left a monthly counter that is not zero.
DailyResetTwiceSeen ==
    /\ Len(sched.runs) = 2
    /\ sched.runs[1].op = "daily" /\ sched.runs[2].op = "daily"
    /\ \E c \in DOMAIN apiClients :
            /\ sched.runs[1].from[c].DailyUsage > 0
            /\ apiClients[c].DailyUsage = 0
            /\ apiClients[c].MonthlyUsage > 0

\* C35: for every raw number, FormatPhone gives a plus sign followed by
\* digits only: a plus sign that is not the first character of the input is
\* not in the output.
CanonicalForm ==
    \A n \in PhoneInputs :
        LET formatted == FormatPhone(n)
        IN  /\ formatted # <<>> /\ Head(formatted) = "+"
            /\ \A i \in 2..Len(formatted) : formatted[i] \in Digits

\* C36: with at most MaxReq single sends of a client in flight at any time,
\* constant limits and no zeroing of its daily counter, the log holds at
\* most dailyLimit + MaxReq entries of the client with status sent.
SentWithinLimitPlusWindow ==
    \A c \in DOMAIN apiClients :
        Len(SelectSeq(smsLogs, LAMBDA e : e.ClientID = c /\ e.Status = "sent"))
            <= apiClients[c].DailyLimit + MaxReq

\* The number of log entries of client c with status sent that were created
\* since an admin reset last wrote the zeroed row of c, or since the
\* creation of c.
SentSinceZeroed(c) ==
    LET resets == {a \in Admins : /\ adm[a].pc = "done" /\ adm[a].op = "reset"
                                  /\ adm[a].code = 200 /\ adm[a].id = c}
        last   == IF resets = {} THEN 0
                  ELSE CHOOSE n \in {adm[a].logged : a \in resets} :
                          \A a \in resets : adm[a].logged <= n
    IN  Cardinality({i \in (last + 1)..Len(smsLogs) :
                        smsLogs[i].ClientID = c /\ smsLogs[i].Status = "sent"})

\* C37: in every execution, concurrent ones included, the stored dailyUsage
\* of a client is never greater than the number of its log entries with
\* status sent created since its daily counter was last zeroed, or since
\* its creation.
DailyUsageAtMostSentSinceZeroed ==
    \A c \in DOMAIN apiClients :
        apiClients[c].DailyUsage <= SentSinceZeroed(c)

\* C38: a request with the credentials of an active client arriving at any
\* route of the /sms group (send, bulk send, logs, statistics) while the
\* stored dailyUsage of the client is at or above its dailyLimit, or its
\* monthlyUsage at or above its monthlyLimit, is answered 429 and changes
\* nothing; below both limits a request for logs or statistics is answered
\* 200.
QuotaGatesEveryRoute ==
    [][\A r \in Reqs :
            (req[r].pc = "idle" /\ req'[r].pc # "idle") =>
                LET q == req'[r]
                IN  \A c \in DOMAIN apiClients :
                        (/\ apiClients[c].APIKey = q.apiKey
                         /\ apiClients[c].APISecret = GenerateFromPassword(q.apiSecret)
                         /\ apiClients[c].IsActive) =>
                            IF \/ apiClients[c].DailyUsage >= apiClients[c].DailyLimit
                               \/ apiClients[c].MonthlyUsage >= apiClients[c].MonthlyLimit
                            THEN /\ q.kind \in {"single", "bulk", "logs", "stats"}
                                 /\ q.pc = "done" /\ q.resp.Code = 429
                                 /\ ~q.resp.Success /\ q.resp.Data = NoData
                                 /\ q.calls = <<>>
                                 /\ apiClients' = apiClients /\ smsLogs' = smsLogs
                            ELSE q.kind \in {"logs", "stats"} =>
                                    q.resp.Code = 200 /\ q.resp.Success]_vars

\* A request for the statistics of a client, with its credentials, has been
\* answered 429 with the daily counter of the client at its limit.
StatsRefusedAtLimitSeen ==
    \E r \in EndedReqs :
        /\ req[r].kind = "stats" /\ req[r].resp.Code = 429
        /\ \E c \in DOMAIN apiClients :
                /\ apiClients[c].APIKey = req[r].apiKey
                /\ apiClients[c].IsActive
                /\ apiClients[c].DailyUsage = apiClients[c].DailyLimit

\* C39: a bulk request whose exchange with the provider succeeded at
\* transport level is answered 200 with success true and the counts of its
\* messages sent and failed, whatever these are; a bulk request is answered
\* with success false exactly when it made no exchange (rejected by the
\* middleware, the validation or the pre-check) or the exchange came to a
\* transport error.
BulkSuccessFlag ==
    \A r \in EndedReqs :
        LET q == req[r]
        IN  q.kind = "bulk" =>
                /\ q.exch.ok =>
                        /\ q.resp.Code = 200 /\ q.resp.Success
                        /\ q.resp.Data.total = Len(q.msgs)
                        /\ q.resp.Data.successful = Len(SentOf(r))
                        /\ q.resp.Data.failed = Len(q.msgs) - Len(SentOf(r))
                /\ ~q.resp.Success <=> (q.exch = NoExchange \/ TransportError(q))
                /\ ~q.resp.Success => q.resp.Code \in {400, 401, 403, 429, 500}

\* A bulk request of several messages, all classified failed, has been
\* answered 200 with success true.
BulkAllFailedFlaggedSuccessSeen ==
    \E r \in EndedReqs :
        /\ req[r].kind = "bulk" /\ req[r].exch.ok
        /\ Len(req[r].msgs) > 1
        /\ Len(EntriesOf(r)) = Len(req[r].msgs) /\ SentOf(r) = <<>>
        /\ req[r].resp.Code = 200 /\ req[r].resp.Success
        /\ req[r].resp.Data.successful = 0
        /\ req[r].resp.Data.failed = Len(req[r].msgs)
====
